---- MODULE Spec2Model ----
(***************************************************************************)
(* State-machine model of the stem cache of the audio remix server:        *)
(* app.py (upload_file, separar), clases.py (Cancion, ProyectoAudio),      *)
(* procesamiento_audio.py (validate_stems_integrity, separate_stems).      *)
(* The Flask server handles requests in threads; every handler is split    *)
(* at the points where it blocks (the engine run) or where another thread  *)
(* can observe its writes to the shared ledger.                            *)
(***************************************************************************)
EXTENDS Integers, Sequences, FiniteSets, TLC

\* ------------------------------------------------------------------ bounds
MaxContent == 2      \* distinct byte contents a client can upload
MaxSongs == 2        \* Song records in the ledger store found at first start
MaxOps == 3          \* requests, restarts and outside file changes in one behaviour

\* ------------------------------------------------------------ value spaces
\* An artifact path with no file behind it, an upload name with no file behind
\* it, and Python's None.
NoFile == [size |-> -1, src |-> 0]
NoContent == 0
None == "None"

\* Worker threads of the server (app.run, threaded): two requests can overlap.
Threads == {"t1", "t2"}

\* Uploaded file names <base>.<ext>; a.mp3 and a.wav share the base name.
Names == { [base |-> "a", ext |-> "mp3"],
           [base |-> "a", ext |-> "wav"],
           [base |-> "b", ext |-> "mp3"] }

NameOrder == << [base |-> "a", ext |-> "mp3"],
                [base |-> "a", ext |-> "wav"],
                [base |-> "b", ext |-> "mp3"] >>

Contents == 1..MaxContent

\* Sizes an artifact file can have, around the 1000-byte checks of the code.
Sizes == {999, 1000, 1001}

\* procesamiento_audio.py:124
expected_stems == << "vocals", "drums", "bass", "other" >>

StemNames == { expected_stems[i] : i \in 1..Len(expected_stems) }

\* os.path.join(UPLOAD_FOLDER, filename), app.py:88 and app.py:236
UploadPath(filename) == [dir |-> "uploads", file |-> filename]

\* os.path.basename of a path below the upload folder, clases.py:118
basename(path) == path.file

\* os.path.splitext(os.path.basename(input_audio))[0], procesamiento_audio.py:122
song_name(path) == basename(path).base

\* os.path.join(out_dir, "htdemucs", song_name), procesamiento_audio.py:123
demucs_output_dir(path) == song_name(path)

\* os.path.join(demucs_output_dir, f"{stem_name}.wav"), procesamiento_audio.py:136, 203
stem_path(dir, stem) == [song |-> dir, stem |-> stem]

SongDirs == { n.base : n \in Names }

StemPaths == { stem_path(d, s) : d \in SongDirs, s \in StemNames }

\* ---------------------------------------------------------------- state
VARIABLES
    uploads,     \* uploads/<name>: the content stored under each name, or NoContent
    outdirs,     \* the directories outputs_remix/htdemucs/<song> that exist
    outfiles,    \* artifact files: StemPaths -> NoFile or [size, src]
    estado,      \* estado_proyecto.json: [present, data], data the list of Song dicts
    canciones,   \* proyecto.canciones, the in-memory ledger
    booted,      \* the module-level startup (cargar_estado) has run
    rq,          \* per thread: the request it is handling and the handler's locals
    lastUpload,  \* the response of the most recent /upload request
    hist,        \* the last /separar request that completed with nothing after it
    untouched,   \* no /separar request was taken since the ledger was last loaded
    added,       \* the most recent call of agregar_cancion: its argument and outcome
    cl,          \* per thread: the /api/cache/cleanup request it is handling
    report,      \* the most recent report of /api/diagnostics, or the one being produced
    lastClean,   \* the last cleanup that completed with nothing after it
    startup,     \* what the module-level startup found: nothing yet, no prior state, a ledger
    hashed,      \* the most recent fingerprinting of two files: the inputs and the digests
    rebuilt,     \* the most recent call of rebuild_index: what it found and returned
    nOps         \* requests taken, restarts and outside file changes so far

vars == << uploads, outdirs, outfiles, estado, canciones, booted, rq,
           lastUpload, hist, untouched, added, cl, report, lastClean, startup,
           hashed, rebuilt, nOps >>

\* ------------------------------------------------------- filesystem reads
\* os.path.exists / os.path.getsize on an artifact path, given the file table
exists(fs, path) == fs[path] # NoFile

getsize(fs, path) == fs[path].size

\* ------------------------------------------------------- Python dict
\* A dict is the sequence of its items in insertion order; assigning to a key
\* that is present replaces the value in place.
DictSet(d, key, val) ==
    IF \E i \in 1..Len(d) : d[i].k = key
    THEN [i \in 1..Len(d) |-> IF d[i].k = key THEN [k |-> key, v |-> val] ELSE d[i]]
    ELSE Append(d, [k |-> key, v |-> val])

RECURSIVE DictFrom(_, _)
DictFrom(pistas, acc) ==
    IF pistas = << >> THEN acc
    ELSE DictFrom(Tail(pistas),
                  DictSet(acc, Head(pistas).nombre, Head(pistas).archivo_ruta))

\* {p.nombre: p.archivo_ruta for p in cancion.pistas}, app.py:263
stems_dict(pistas) == DictFrom(pistas, << >>)

\* ------------------------------------------------------- clases.py
\* Pista(nombre, archivo_ruta), clases.py:16-20
Pista(nombre, archivo_ruta) == [nombre |-> nombre, archivo_ruta |-> archivo_ruta]

\* Cancion._infer_format, clases.py:48-51
infer_format(archivo_ruta) == basename(archivo_ruta).ext

\* Cancion(titulo, archivo_ruta, formato), clases.py:39-46: no content identity
\* is taken or kept.
Cancion(titulo, archivo_ruta, formato) ==
    [titulo |-> titulo,
     archivo_ruta |-> archivo_ruta,
     formato |-> IF formato = None THEN infer_format(archivo_ruta) ELSE formato,
     pistas |-> << >>]

\* Cancion.to_dict / Pista.to_dict, clases.py:25-31 and 78-87
to_dict(c) ==
    [titulo |-> c.titulo,
     archivo_ruta |-> c.archivo_ruta,
     formato |-> c.formato,
     pistas |-> [i \in 1..Len(c.pistas) |->
                   [nombre |-> c.pistas[i].nombre,
                    archivo_ruta |-> c.pistas[i].archivo_ruta]]]

\* ProyectoAudio.agregar_cancion, clases.py:104-113: appends, whatever the
\* ledger already holds.
agregar_cancion(ledger, cancion) == Append(ledger, cancion)

\* A lookup that falls back on the first Song of the ledger when no Song has
\* the requested file name.
encontrar_primera(ledger, filename) ==
    IF \E i \in 1..Len(ledger) : basename(ledger[i].archivo_ruta) = filename
    THEN CHOOSE i \in 1..Len(ledger) :
            /\ basename(ledger[i].archivo_ruta) = filename
            /\ \A j \in 1..(i - 1) : basename(ledger[j].archivo_ruta) # filename
    ELSE IF Len(ledger) > 0 THEN 1 ELSE 0

\* ProyectoAudio.encontrar_cancion_por_archivo, clases.py:115-120: the index of
\* the first Song whose source file has this base name, 0 for None.
encontrar_cancion_por_archivo(ledger, filename) ==
    IF \E i \in 1..Len(ledger) : basename(ledger[i].archivo_ruta) = filename
    THEN CHOOSE i \in 1..Len(ledger) :
            /\ basename(ledger[i].archivo_ruta) = filename
            /\ \A j \in 1..(i - 1) : basename(ledger[j].archivo_ruta) # filename
    ELSE 0

\* GestorArchivos("estado_proyecto.json").guardar_json(data): the whole list
\* replaces the stored one.
guardar_json(data) == [present |-> TRUE, data |-> data]

\* GestorArchivos("estado_proyecto.json").leer_json(): the stored list, or an
\* empty result when there is no store.
leer_json(store) == IF store.present THEN store.data ELSE << >>

\* ProyectoAudio.guardar_estado, clases.py:138-142
guardar_estado(ledger) ==
    guardar_json([i \in 1..Len(ledger) |-> to_dict(ledger[i])])

\* The body of the loop of cargar_estado for one record, clases.py:155-164
cancion_from_dict(c_data) ==
    [ Cancion(c_data.titulo, c_data.archivo_ruta, c_data.formato)
        EXCEPT !.pistas = [i \in 1..Len(c_data.pistas) |->
                             Pista(c_data.pistas[i].nombre,
                                   c_data.pistas[i].archivo_ruta)] ]

\* ------------------------------------------------------- procesamiento_audio.py
\* compute_file_hash, procesamiento_audio.py:43-59: SHA-256 of the bytes; on
\* the contents of the model, one digest per content.
compute_file_hash(content) == << "sha256", content >>

\* hashlib.sha256() as an ideal digest: the state is the bytes absorbed so
\* far, in order, and two digests are equal exactly when those bytes are.
sha256_new == << >>

sha256_update(state, byte_block) == state \o byte_block

hexdigest(state) == << "sha256", state >>

\* f.read(n) at the head of what is left of the file: up to n bytes, b"" at
\* the end of the file.
read(rest, n) == SubSeq(rest, 1, IF Len(rest) < n THEN Len(rest) ELSE n)

\* A loop that stops at the first block shorter than the chunk size, without
\* hashing it.
RECURSIVE hash_full_blocks(_, _, _)
hash_full_blocks(rest, chunk, state) ==
    LET byte_block == read(rest, chunk)
    IN  IF Len(byte_block) < chunk
        THEN state
        ELSE hash_full_blocks(SubSeq(rest, Len(byte_block) + 1, Len(rest)), chunk,
                              sha256_update(state, byte_block))

\* for byte_block in iter(lambda: f.read(65536), b""): sha256_hash.update(...),
\* procesamiento_audio.py:57-58, with the chunk size as a parameter.
RECURSIVE hash_blocks(_, _, _)
hash_blocks(rest, chunk, state) ==
    LET byte_block == read(rest, chunk)
    IN  IF byte_block = << >>
        THEN state
        ELSE hash_blocks(SubSeq(rest, Len(byte_block) + 1, Len(rest)), chunk,
                         sha256_update(state, byte_block))

\* compute_file_hash(filepath), procesamiento_audio.py:43-59, on the files of
\* a folder: the path is only used to open the file.
file_hash_by_chunks(files, filepath, chunk) ==
    hexdigest(hash_blocks(files[filepath], chunk, sha256_new))

\* Every entry reported as not found, whatever is on disk.
validate_missing_all(fs, d) ==
    [i \in 1..Len(d) |-> [nombre |-> d[i].k, reason |-> "not found"]]

\* validate_stems_integrity, procesamiento_audio.py:62-81
validate_missing(fs, d) ==
    LET bad(i) == \/ ~exists(fs, d[i].v)
                  \/ getsize(fs, d[i].v) < 1000
        idx == SelectSeq([i \in 1..Len(d) |-> i], bad)
    IN  [i \in 1..Len(idx) |->
            [nombre |-> d[idx[i]].k,
             reason |-> IF ~exists(fs, d[idx[i]].v) THEN "not found" ELSE "empty"]]

validate_stems_integrity(fs, d) ==
    [is_valid |-> Len(validate_missing(fs, d)) = 0,
     missing |-> validate_missing(fs, d)]

\* A cache check that is content with one whole stem file.
some_exist(fs, dirs, dir) ==
    /\ dir \in dirs
    /\ \E i \in 1..Len(expected_stems) :
          /\ exists(fs, stem_path(dir, expected_stems[i]))
          /\ getsize(fs, stem_path(dir, expected_stems[i])) > 1000

\* separate_stems, the smart cache check, procesamiento_audio.py:131-143
all_exist(fs, dirs, dir) ==
    /\ dir \in dirs
    /\ \A i \in 1..Len(expected_stems) :
          /\ exists(fs, stem_path(dir, expected_stems[i]))
          /\ getsize(fs, stem_path(dir, expected_stems[i])) > 1000

\* A loop over the expected stems that stops after the first file it keeps.
stems_first_kept(fs, dir) ==
    LET keep(s) == /\ exists(fs, stem_path(dir, s))
                   /\ ~(getsize(fs, stem_path(dir, s)) < 1000)
        kept == SelectSeq(expected_stems, keep)
    IN  IF kept = << >> THEN << >> ELSE << Head(kept) >>

\* separate_stems after the run, procesamiento_audio.py:201-216: the names of
\* the stems it returns, in the order of expected_stems.
stems_after_run(fs, dir) ==
    LET keep(s) == /\ exists(fs, stem_path(dir, s))
                   /\ ~(getsize(fs, stem_path(dir, s)) < 1000)
    IN  SelectSeq(expected_stems, keep)

\* Every stem separate_stems returned, whatever its file.
stems_unfiltered(fs, dir, stems) == stems

\* separar, the validation of what separate_stems returned, app.py:298-304
stems_validos(fs, dir, stems) ==
    LET ok(s) == /\ exists(fs, stem_path(dir, s))
                 /\ getsize(fs, stem_path(dir, s)) > 1000
    IN  SelectSeq(stems, ok)

\* ------------------------------------------------------- cache_manager.py
\* CacheManager.list_all_stem_files, cache_manager.py:29-44: every .wav file in
\* a folder of outputs_remix/htdemucs (every artifact file of the model is a
\* .wav file).
list_all_stem_files(fs, dirs) ==
    { p \in StemPaths : p.song \in dirs /\ exists(fs, p) }

\* The pista dicts of the stored list, in the order lines 57-58 visit them.
RECURSIVE pistas_in_order(_)
pistas_in_order(data) ==
    IF data = << >> THEN << >>
    ELSE Head(data).pistas \o pistas_in_order(Tail(data))

\* pista['archivo_ruta'] raises KeyError on a dict without that key.
has_ruta(pista) == "archivo_ruta" \in DOMAIN pista

\* CacheManager.get_referenced_stems, cache_manager.py:46-63: the paths read
\* before the first exception; the except clause of line 60 ends the loops and
\* what was appended so far is returned.
get_referenced_stems(store) ==
    LET flat == pistas_in_order(leer_json(store))
        stop == IF \E j \in 1..Len(flat) : ~has_ruta(flat[j])
                THEN CHOOSE j \in 1..Len(flat) :
                        /\ ~has_ruta(flat[j])
                        /\ \A k \in 1..(j - 1) : has_ruta(flat[k])
                ELSE Len(flat) + 1
    IN  { flat[i].archivo_ruta : i \in 1..(stop - 1) }

\* CacheManager.find_orphaned_stems, cache_manager.py:65-70
find_orphaned_stems(fs, dirs, store) ==
    list_all_stem_files(fs, dirs) \ get_referenced_stems(store)

\* The list get_referenced_stems returns, one entry per pista dict read, a path
\* named twice counted twice.
get_referenced_list(store) ==
    LET flat == pistas_in_order(leer_json(store))
        stop == IF \E j \in 1..Len(flat) : ~has_ruta(flat[j])
                THEN CHOOSE j \in 1..Len(flat) :
                        /\ ~has_ruta(flat[j])
                        /\ \A k \in 1..(j - 1) : has_ruta(flat[k])
                ELSE Len(flat) + 1
    IN  [i \in 1..(stop - 1) |-> flat[i].archivo_ruta]

\* round(num / den, 3), in thousandths.  No quotient of the model falls on a
\* tie, so rounding half up and Python's rounding agree.
round3(num, den) == (2000 * num + den) \div (2 * den)

\* CacheManager.generate_report from line 110 on, cache_manager.py:110-139,
\* given what lines 108 and 109 returned: find_orphaned_stems lists the files
\* and reads the store again, lines 115-120 read the store once more, line 125
\* divides.  timestamp, cache_size_mb and output_directory are left out.
\* quiet: files and store were at lines 108-109 what they are now.
generate_report(all_stems, referenced, fs, dirs, store, quiet) ==
    LET orphaned == find_orphaned_stems(fs, dirs, store)
        data == leer_json(store)
        cache_hit_rate == IF all_stems # {}
                          THEN round3(Len(referenced), Cardinality(all_stems))
                          ELSE 0
    IN  [taken |-> TRUE, pc |-> "idle",
         all_stems |-> all_stems, referenced |-> referenced,
         orphaned_files |-> orphaned,
         orphaned_stems |-> Cardinality(orphaned),
         total_songs |-> Len(data),
         total_stems_in_filesystem |-> Cardinality(all_stems),
         total_stems_in_state |-> Len(pistas_in_order(data)),
         cache_utilization_rate |-> cache_hit_rate,
         quiet |-> quiet, files |-> << >>, store |-> << >>]

\* A stored Song dict that cargar_estado restores (clases.py:153-166): one
\* with the keys lines 155 and 162 subscript.  A dict that raises in the try
\* block is skipped (lines 168-169).
restorable(c_data) ==
    /\ {"titulo", "archivo_ruta"} \subseteq DOMAIN c_data
    /\ \A i \in 1..Len(c_data.pistas) :
          {"nombre", "archivo_ruta"} \subseteq DOMAIN c_data.pistas[i]

\* ------------------------------------------------------- the engine
\* What one run of the demucs process can do: exit nonzero; exit zero having
\* written nothing; exit zero having written the stem files, each whole or
\* cut short, all four of them or all but bass.
EngineOutcomes ==
    {"fail", "nothing", "full", "bass999", "bass1000", "nobass", "tiny"}

\* The run creates the output folder of the song.
writes(outcome) == outcome \in {"full", "bass999", "bass1000", "nobass", "tiny"}

\* The run writes this stem file.
writes_stem(outcome, stem) ==
    writes(outcome) /\ ~(outcome = "nobass" /\ stem = "bass")

written_size(outcome, stem) ==
    CASE outcome = "tiny" -> 999
      [] outcome = "bass999" /\ stem = "bass" -> 999
      [] outcome = "bass1000" /\ stem = "bass" -> 1000
      [] OTHER -> 1001

engine_files(fs, outcome, dir, src) ==
    IF writes(outcome)
    THEN [p \in StemPaths |->
            IF p.song = dir /\ writes_stem(outcome, p.stem)
            THEN [size |-> written_size(outcome, p.stem), src |-> src]
            ELSE fs[p]]
    ELSE fs

engine_dirs(dirs, outcome, dir) ==
    IF writes(outcome) THEN dirs \cup {dir} ELSE dirs

\* An engine whose exit code is always zero.
returncode_zero(outcome) == 0

\* process.returncode, procesamiento_audio.py:190
returncode(outcome) == IF outcome = "fail" THEN 1 ELSE 0

\* f"outputs_remix/{rel_path_url}", app.py:272-274 and 324-326
public_url(path) == << "outputs_remix", "htdemucs", path.song, path.stem >>

\* ------------------------------------------------------- request records
NoName == [base |-> "", ext |-> ""]

NoResp == [status |-> 0, cached |-> FALSE, pistas |-> << >>, error |-> ""]

NoHist == [nombre |-> NoName, status |-> 0, pistas |-> << >>, ran |-> 0, had |-> 0]

NoUpload == [nombre |-> NoName, content |-> NoContent, status |-> 0]

\* A thread with no request.  The handler's locals: nombre (the requested
\* name), ci (the index of `cancion` in the ledger), validos (stems_validos, by
\* stem name), resp (the JSON response).  Kept for the properties: src (the
\* content the engine was started on), ran (engine processes started), had
\* (recorded stems found), discarded (line 285 ran), fresh (the stems this
\* request's engine run wrote with more than 1000 bytes), dirty (an upload or
\* an artifact file changed under the request, by another hand than its own
\* engine run), prev (the request that completed just before this one).
\* The locals of guardar_estado when the save is followed step by step: data
\* (the list of line 141), tmp (how much of it guardar_json has written).
IdleReq ==
    [pc |-> "idle", nombre |-> NoName, ci |-> 0, src |-> NoContent,
     validos |-> << >>, ran |-> 0, had |-> 0, discarded |-> FALSE,
     fresh |-> {}, dirty |-> FALSE, prev |-> NoHist, resp |-> NoResp,
     data |-> << >>, tmp |-> "none"]

\* No call of agregar_cancion yet.
NoAdd == [n |-> 0, type |-> None, cancion |-> Cancion(NoName, UploadPath(NoName), "audio"),
          raised |-> FALSE]

\* No cleanup completed yet, no report taken yet, a thread with no cleanup
\* request.  The locals of cleanup_orphaned_stems: todo (the orphans the loop
\* of line 82 has not reached), deleted, dirlist (the folders the loop of line
\* 93 has not reached).  Kept for the properties: confirm (whether the request
\* carried a confirmation), orphaned (what find_orphaned_stems returned),
\* errors (the paths reported at line 88), before (the artifact files when the
\* request came in), prev (the cleanup that completed just before this one).
NoClean == [status |-> 0, count |-> 0, errors |-> {}]

NoReport ==
    [taken |-> FALSE, pc |-> "idle", all_stems |-> {}, referenced |-> << >>,
     orphaned_files |-> {}, orphaned_stems |-> 0, total_songs |-> 0,
     total_stems_in_filesystem |-> 0, total_stems_in_state |-> 0,
     cache_utilization_rate |-> 0, quiet |-> TRUE, files |-> << >>, store |-> << >>]

IdleClean ==
    [pc |-> "idle", confirm |-> FALSE, orphaned |-> {}, todo |-> {},
     deleted |-> << >>, errors |-> {}, dirlist |-> {}, before |-> << >>,
     prev |-> NoClean, resp |-> [status |-> 0, count |-> 0, deleted |-> << >>]]

\* No call of rebuild_index yet.  before: the in-memory ledger and the artifact
\* files when it was called; saved: guardar_estado was called; updated_songs,
\* removed_tracks: the pair it returned.
NoRebuilt ==
    [done |-> FALSE, before |-> << >>, files |-> << >>, saved |-> FALSE,
     updated_songs |-> 0, removed_tracks |-> 0]

\* No file fingerprinted yet.
NoHashed ==
    [done |-> FALSE, name1 |-> NoName, name2 |-> NoName, f1 |-> << >>, f2 |-> << >>,
     chunk1 |-> 1, chunk2 |-> 1, id1 |-> << >>, id2 |-> << >>]

\* The requests in flight see files change under them.
Dirtied(skip) ==
    [t \in Threads |->
        IF rq[t].pc # "idle" /\ t \notin skip
        THEN [rq[t] EXCEPT !.dirty = TRUE]
        ELSE rq[t]]

\* jsonify({"error": ...}), status
ErrorResp(status, error) ==
    [status |-> status, cached |-> FALSE, pistas |-> << >>, error |-> error]

\* ------------------------------------------------------- initial state
\* The ledger store the process finds when it first starts: absent, or a list
\* of the first n <= MaxSongs names of NameOrder as Song records, none
\* separated yet.  The source file of each is in the upload folder, and no
\* two of them hold the same bytes.
InitStores ==
    { [present |-> FALSE, data |-> << >>] } \cup
    { [present |-> TRUE,
       data |-> [i \in 1..n |->
                   to_dict(Cancion(NameOrder[i], UploadPath(NameOrder[i]), "audio"))]] :
        n \in 0..MaxSongs }

\* uploads/ at first start: the source file of the i-th stored Song holds
\* content i.
InitUploads(store) ==
    [n \in Names |->
        IF \E i \in 1..Len(store.data) : basename(store.data[i].archivo_ruta) = n
        THEN CHOOSE i \in 1..Len(store.data) : basename(store.data[i].archivo_ruta) = n
        ELSE NoContent]

Init ==
    /\ estado \in InitStores
    /\ uploads = InitUploads(estado)
    /\ outdirs = {}
    /\ outfiles = [p \in StemPaths |-> NoFile]
    /\ canciones = << >>
    /\ booted = FALSE
    /\ rq = [t \in Threads |-> IdleReq]
    /\ lastUpload = NoUpload
    /\ hist = NoHist
    /\ untouched = FALSE
    /\ added = NoAdd
    /\ cl = [t \in Threads |-> IdleClean]
    /\ report = NoReport
    /\ lastClean = NoClean
    /\ startup = "none"
    /\ hashed = NoHashed
    /\ rebuilt = NoRebuilt
    /\ nOps = 0

\* ------------------------------------------------------- startup
\* A load whose loop has one try block around it: the first record that raises
\* ends the load, and the records before it are kept.
cargar_estado_abort ==
    /\ ~booted
    /\ LET data == leer_json(estado)
           stop == IF \E j \in 1..Len(data) : ~restorable(data[j])
                   THEN CHOOSE j \in 1..Len(data) :
                           /\ ~restorable(data[j])
                           /\ \A k \in 1..(j - 1) : restorable(data[k])
                   ELSE Len(data) + 1
       IN  /\ canciones' = IF Len(data) = 0
                           THEN canciones
                           ELSE [i \in 1..(stop - 1) |-> cancion_from_dict(data[i])]
           /\ startup' = IF Len(data) = 0 THEN "no prior state" ELSE "restored"
    /\ booted' = TRUE
    /\ untouched' = TRUE
    /\ UNCHANGED << hashed, rebuilt, cl, report, lastClean, added, uploads, outdirs, outfiles,
                    estado, rq, lastUpload, hist, nOps >>

\* ProyectoAudio.cargar_estado as called at app.py:28-34.  An empty result of
\* leer_json raises ValueError before the ledger is touched (clases.py:148-149),
\* which app.py:31-32 takes as "no prior state"; otherwise the ledger is the
\* records the loop of lines 152-169 restores, in their order.
cargar_estado ==
    /\ ~booted
    /\ LET data == leer_json(estado)
           good == SelectSeq(data, restorable)
       IN  /\ canciones' = IF Len(data) = 0
                           THEN canciones
                           ELSE [i \in 1..Len(good) |-> cancion_from_dict(good[i])]
           /\ startup' = IF Len(data) = 0 THEN "no prior state" ELSE "restored"
    /\ booted' = TRUE
    /\ untouched' = TRUE
    /\ UNCHANGED << hashed, rebuilt, cl, report, lastClean, added, uploads, outdirs, outfiles,
                    estado, rq, lastUpload, hist, nOps >>

\* The server process stops and is started again: the in-memory ledger and
\* the requests in flight are gone, the files stay.
Restart ==
    /\ booted
    /\ nOps < MaxOps
    /\ nOps' = nOps + 1
    /\ booted' = FALSE
    /\ canciones' = << >>
    /\ rq' = [t \in Threads |-> IdleReq]
    /\ lastUpload' = NoUpload
    /\ hist' = NoHist
    /\ startup' = "none"
    /\ UNCHANGED << hashed, rebuilt, cl, report, lastClean, added, uploads, outdirs, outfiles, estado, untouched >>

\* ------------------------------------------------------- /upload
\* upload_file, app.py:76-186.  file.save stores the bytes under the name
\* (line 89), compute_file_hash digests them (line 96), and line 100 calls
\* proyecto.encontrar_cancion_por_hash, a method ProyectoAudio (clases.py:92-169)
\* does not define: AttributeError, caught at line 182, answered with 500.
\* Lines 102-180 are never reached.
upload_file(filename, content) ==
    /\ booted
    /\ nOps < MaxOps
    /\ nOps' = nOps + 1
    /\ uploads' = [uploads EXCEPT ![filename] = content]
    /\ lastUpload' = [nombre |-> filename, content |-> content, status |-> 500]
    /\ hist' = NoHist
    /\ rq' = Dirtied({})
    /\ UNCHANGED << startup, hashed, rebuilt, cl, report, lastClean, added, outdirs, outfiles, estado, canciones, booted, untouched >>

\* ------------------------------------------------------- /separar
\* pistas_publicas of the cache hit, app.py:270-275
pistas_publicas_hit(pistas) ==
    LET RECURSIVE build(_, _)
        build(ps, acc) ==
            IF ps = << >> THEN acc
            ELSE build(Tail(ps),
                       DictSet(acc, Head(ps).nombre, public_url(Head(ps).archivo_ruta)))
    IN  build(pistas, << >>)

\* pistas_publicas after a separation, app.py:322-326
pistas_publicas_new(dir, validos) ==
    [i \in 1..Len(validos) |->
        [k |-> validos[i], v |-> public_url(stem_path(dir, validos[i]))]]

\* separar from the request to the first point where it returns or blocks,
\* app.py:225-295 with separate_stems up to Popen, procesamiento_audio.py:116-181.
\* All names of the model end in .mp3 or .wav and every content is non-empty,
\* so lines 230-234 and 247-248 let the request through.
separar_begin(t, nombre) ==
    /\ booted
    /\ rq[t].pc = "idle"
    /\ nOps < MaxOps
    /\ nOps' = nOps + 1
    /\ hist' = NoHist
    /\ untouched' = FALSE
    /\ LET ruta_archivo == UploadPath(nombre)
           ci == encontrar_cancion_por_archivo(canciones, nombre)
           pistas == canciones[ci].pistas
           check == validate_stems_integrity(outfiles, stems_dict(pistas))
           dir == demucs_output_dir(ruta_archivo)
           req == [IdleReq EXCEPT !.nombre = nombre, !.prev = hist]
       IN  IF uploads[nombre] = NoContent
           THEN \* line 239-241
                /\ rq' = [rq EXCEPT ![t] =
                            [req EXCEPT !.pc = "done",
                                        !.resp = ErrorResp(404, "Archivo no encontrado")]]
                /\ UNCHANGED canciones
           ELSE IF ci = 0
           THEN \* lines 251-254
                /\ rq' = [rq EXCEPT ![t] =
                            [req EXCEPT !.pc = "done",
                                        !.resp = ErrorResp(404,
                                                     "Cancion no registrada en el proyecto")]]
                /\ UNCHANGED canciones
           ELSE IF pistas # << >> /\ check.is_valid
           THEN \* lines 260-281, the cache hit
                /\ rq' = [rq EXCEPT ![t] =
                            [req EXCEPT !.pc = "done", !.ci = ci,
                                        !.had = Len(pistas),
                                        !.resp = [status |-> 200, cached |-> TRUE,
                                                  pistas |-> pistas_publicas_hit(pistas),
                                                  error |-> ""]]]
                /\ UNCHANGED canciones
           ELSE \* lines 282-295: the recorded stems, if any, are dropped in
                \* memory, then separate_stems is entered
                /\ canciones' = [canciones EXCEPT ![ci].pistas = << >>]
                /\ IF all_exist(outfiles, outdirs, dir)
                   THEN \* procesamiento_audio.py:145-155, then app.py:298-310
                        rq' = [rq EXCEPT ![t] =
                                 [req EXCEPT !.pc = "clear", !.ci = ci,
                                             !.had = Len(pistas),
                                             !.discarded = (pistas # << >>),
                                             !.validos =
                                                 stems_validos(outfiles, dir, expected_stems)]]
                   ELSE \* procesamiento_audio.py:160-181, the process is started
                        rq' = [rq EXCEPT ![t] =
                                 [req EXCEPT !.pc = "running", !.ci = ci,
                                             !.had = Len(pistas),
                                             !.discarded = (pistas # << >>),
                                             !.src = uploads[nombre],
                                             !.ran = 1]]
    /\ UNCHANGED << startup, hashed, rebuilt, cl, report, lastClean, added, uploads, outdirs, outfiles, estado, booted, lastUpload >>

\* The engine process ends: process.communicate() returns, separate_stems
\* checks what is on disk and returns or raises, and separar validates the
\* result, procesamiento_audio.py:183-236 and app.py:297-310, 334-341.
engine_finish(t, outcome) ==
    /\ rq[t].pc = "running"
    /\ LET dir == demucs_output_dir(UploadPath(rq[t].nombre))
           fs == engine_files(outfiles, outcome, dir, rq[t].src)
           dirs == engine_dirs(outdirs, outcome, dir)
           stems == stems_after_run(fs, dir)
           validos == stems_validos(fs, dir, stems)
           fresh == { st \in StemNames :
                         /\ writes_stem(outcome, st)
                         /\ written_size(outcome, st) > 1000 }
           others == IF writes(outcome) THEN Dirtied({t}) ELSE rq
       IN  /\ outfiles' = fs
           /\ outdirs' = dirs
           /\ IF \/ returncode(outcome) # 0       \* lines 190-192
                 \/ dir \notin dirs               \* lines 195-198
                 \/ stems = << >>                  \* lines 218-222
              THEN \* the RuntimeError is caught at app.py:334-341
                   rq' = [others EXCEPT ![t].pc = "done", ![t].fresh = fresh,
                                        ![t].resp =
                                            ErrorResp(500, "Error durante la separacion")]
              ELSE IF validos = << >>              \* app.py:306-310
              THEN rq' = [others EXCEPT ![t].pc = "done", ![t].fresh = fresh,
                                        ![t].resp =
                                            ErrorResp(500, "todos los stems estan vacios")]
              ELSE rq' = [others EXCEPT ![t].pc = "clear", ![t].fresh = fresh,
                                        ![t].validos = validos]
    /\ hist' = NoHist
    /\ UNCHANGED << startup, hashed, rebuilt, cl, report, lastClean, added, uploads, estado, canciones, booted, lastUpload,
                    untouched, nOps >>

\* cancion.pistas = [], app.py:313
commit_clear(t) ==
    /\ rq[t].pc = "clear"
    /\ canciones' = [canciones EXCEPT ![rq[t].ci].pistas = << >>]
    /\ rq' = [rq EXCEPT ![t].pc = "add"]
    /\ UNCHANGED << startup, hashed, rebuilt, cl, report, lastClean, added, uploads, outdirs, outfiles, estado, booted, lastUpload, hist,
                    untouched, nOps >>

\* The loop of cancion.agregar_pista(Pista(name, path)), app.py:314-317
agregar_pistas(pistas, dir, validos) ==
    pistas \o [i \in 1..Len(validos) |-> Pista(validos[i], stem_path(dir, validos[i]))]

commit_add(t) ==
    /\ rq[t].pc = "add"
    /\ LET dir == demucs_output_dir(UploadPath(rq[t].nombre))
       IN  canciones' = [canciones EXCEPT ![rq[t].ci].pistas =
                            agregar_pistas(@, dir, rq[t].validos)]
    /\ rq' = [rq EXCEPT ![t].pc = "save"]
    /\ UNCHANGED << startup, hashed, rebuilt, cl, report, lastClean, added, uploads, outdirs, outfiles, estado, booted, lastUpload, hist,
                    untouched, nOps >>

\* proyecto.guardar_estado() and the response, app.py:319-332
commit_save(t) ==
    /\ rq[t].pc = "save"
    /\ estado' = guardar_estado(canciones)
    /\ LET dir == demucs_output_dir(UploadPath(rq[t].nombre))
       IN  rq' = [rq EXCEPT ![t].pc = "done",
                            ![t].resp = [status |-> 200, cached |-> FALSE,
                                         pistas |-> pistas_publicas_new(dir, rq[t].validos),
                                         error |-> ""]]
    /\ UNCHANGED << startup, hashed, rebuilt, cl, report, lastClean, added, uploads, outdirs, outfiles, canciones, booted, lastUpload, hist,
                    untouched, nOps >>

\* The response has gone out; the thread is free again.
finish(t) ==
    /\ rq[t].pc = "done"
    /\ hist' = IF ~rq[t].dirty /\ \A u \in Threads \ {t} : rq[u].pc = "idle"
               THEN [nombre |-> rq[t].nombre, status |-> rq[t].resp.status,
                     pistas |-> rq[t].resp.pistas, ran |-> rq[t].ran,
                     had |-> rq[t].had]
               ELSE NoHist
    /\ rq' = [rq EXCEPT ![t] = IdleReq]
    /\ UNCHANGED << startup, hashed, rebuilt, cl, report, lastClean, added, uploads, outdirs, outfiles, estado, canciones, booted, lastUpload,
                    untouched, nOps >>

\* ------------------------------------------------------- the environment
\* Someone deletes an artifact file, or a file ends up shorter than it was.
delete_stem(path) ==
    /\ nOps < MaxOps
    /\ exists(outfiles, path)
    /\ nOps' = nOps + 1
    /\ outfiles' = [outfiles EXCEPT ![path] = NoFile]
    /\ hist' = NoHist
    /\ rq' = Dirtied({})
    /\ UNCHANGED << startup, hashed, rebuilt, cl, report, lastClean, added, uploads, outdirs, estado, canciones, booted, lastUpload,
                    untouched >>

truncate_stem(path, size) ==
    /\ nOps < MaxOps
    /\ exists(outfiles, path)
    /\ size < getsize(outfiles, path)
    /\ nOps' = nOps + 1
    /\ outfiles' = [outfiles EXCEPT ![path].size = size]
    /\ hist' = NoHist
    /\ rq' = Dirtied({})
    /\ UNCHANGED << startup, hashed, rebuilt, cl, report, lastClean, added, uploads, outdirs, estado, canciones, booted, lastUpload,
                    untouched >>

\* ------------------------------------------------------- specifications
Next ==
    \/ cargar_estado
    \/ Restart
    \/ \E n \in Names, c \in Contents : upload_file(n, c)
    \/ \E t \in Threads, n \in Names : separar_begin(t, n)
    \/ \E t \in Threads, o \in EngineOutcomes : engine_finish(t, o)
    \/ \E t \in Threads : commit_clear(t)
    \/ \E t \in Threads : commit_add(t)
    \/ \E t \in Threads : commit_save(t)
    \/ \E t \in Threads : finish(t)
    \/ \E p \in StemPaths : delete_stem(p)
    \/ \E p \in StemPaths, z \in Sizes : truncate_stem(p, z)

\* Every interleaving of the request threads.
Spec == Init /\ [][Next]_vars

\* One request at a time: a /separar request is only taken when no other is
\* in flight.
Quiet == \A u \in Threads : rq[u].pc = "idle"

NextSeq ==
    \/ cargar_estado
    \/ Restart
    \/ \E n \in Names, c \in Contents : upload_file(n, c)
    \/ \E t \in Threads, n \in Names : Quiet /\ separar_begin(t, n)
    \/ \E t \in Threads, o \in EngineOutcomes : engine_finish(t, o)
    \/ \E t \in Threads : commit_clear(t)
    \/ \E t \in Threads : commit_add(t)
    \/ \E t \in Threads : commit_save(t)
    \/ \E t \in Threads : finish(t)
    \/ \E p \in StemPaths : delete_stem(p)
    \/ \E p \in StemPaths, z \in Sizes : truncate_stem(p, z)

SpecSeq == Init /\ [][NextSeq]_vars

\* What the scheduling of the server guarantees: a step of separar's own code
\* that can be taken is taken (app.py:313-341).  process.communicate(),
\* procesamiento_audio.py:183, is called without a timeout, so the handler
\* has no step of its own while the engine runs, and nothing makes the engine
\* process exit: engine_finish has no fairness condition.
HandlerFairness ==
    \A t \in Threads :
       /\ WF_vars(commit_clear(t))
       /\ WF_vars(commit_add(t))
       /\ WF_vars(commit_save(t))
       /\ WF_vars(finish(t))

SpecLive == Init /\ [][NextSeq]_vars /\ HandlerFairness

\* ------------------------------------------------------- the ledger on its own
\* ProyectoAudio.agregar_cancion called directly, on a ledger built by such
\* calls, with every source file in the upload folder.
Titles == {"x", "y"}

ArgTypes == {"Cancion", "dict"}

InitAdd ==
    /\ uploads \in [Names -> Contents]
    /\ outdirs = {}
    /\ outfiles = [p \in StemPaths |-> NoFile]
    /\ estado = [present |-> FALSE, data |-> << >>]
    /\ canciones = << >>
    /\ booted = TRUE
    /\ rq = [t \in Threads |-> IdleReq]
    /\ lastUpload = NoUpload
    /\ hist = NoHist
    /\ untouched = FALSE
    /\ added = NoAdd
    /\ cl = [t \in Threads |-> IdleClean]
    /\ report = NoReport
    /\ lastClean = NoClean
    /\ startup = "no prior state"
    /\ hashed = NoHashed
    /\ rebuilt = NoRebuilt
    /\ nOps = 0

\* proyecto.agregar_cancion(obj), clases.py:104-113: TypeError for anything but
\* a Cancion (lines 109-110), else the ledger gets the Song (line 112).
add_cancion(type, titulo, filename) ==
    /\ nOps < MaxOps
    /\ nOps' = nOps + 1
    /\ LET cancion == Cancion(titulo, UploadPath(filename), None)
       IN  IF type # "Cancion"
           THEN /\ added' = [n |-> nOps', type |-> type, cancion |-> cancion,
                             raised |-> TRUE]
                /\ UNCHANGED canciones
           ELSE /\ added' = [n |-> nOps', type |-> type, cancion |-> cancion,
                             raised |-> FALSE]
                /\ canciones' = agregar_cancion(canciones, cancion)
    /\ UNCHANGED << startup, hashed, rebuilt, uploads, outdirs, outfiles, estado, booted, rq, lastUpload, hist,
                    untouched, cl, report, lastClean >>

NextAdd ==
    \E ty \in ArgTypes, ti \in Titles, n \in Names : add_cancion(ty, ti, n)

SpecAdd == InitAdd /\ [][NextAdd]_vars

\* ------------------------------------------------------- the cache manager
\* CacheManager on a running server whose store and output folders were left
\* by earlier sessions.  The stored list holds up to MaxRecords of three
\* records: Song a.mp3 with vocals and drums, Song b.mp3 with vocals, and a
\* record of a.wav one of whose pista dicts lacks 'archivo_ruta'.
MaxRecords == 2

\* /api/diagnostics and /api/cache/cleanup requests in one behaviour.
MaxCleanups == 2

CachePaths ==
    { stem_path("a", "vocals"), stem_path("a", "drums"), stem_path("b", "vocals") }

StoredPista(dir, stem) == [nombre |-> stem, archivo_ruta |-> stem_path(dir, stem)]

StoredRecords ==
    { [to_dict(Cancion(NameOrder[1], UploadPath(NameOrder[1]), "audio"))
         EXCEPT !.pistas = << StoredPista("a", "vocals"), StoredPista("a", "drums") >>],
      [to_dict(Cancion(NameOrder[3], UploadPath(NameOrder[3]), "audio"))
         EXCEPT !.pistas = << StoredPista("b", "vocals") >>],
      [to_dict(Cancion(NameOrder[2], UploadPath(NameOrder[2]), "audio"))
         EXCEPT !.pistas = << [nombre |-> "vocals"] >>] }

CacheStores ==
    { [present |-> FALSE, data |-> << >>] } \cup
    { [present |-> TRUE, data |-> d] :
        d \in { q \in UNION { [1..n -> StoredRecords] : n \in 0..MaxRecords } :
                  \A i, j \in 1..Len(q) : q[i] = q[j] => i = j } }

InitCache ==
    /\ estado \in CacheStores
    /\ \E F \in SUBSET CachePaths :
          /\ outfiles = [p \in StemPaths |->
                            IF p \in F THEN [size |-> 1001, src |-> 1] ELSE NoFile]
          /\ outdirs \in { D \in SUBSET SongDirs : \A p \in F : p.song \in D }
    /\ uploads = [n \in Names |-> NoContent]
    /\ canciones = [i \in 1..Len(SelectSeq(leer_json(estado), restorable)) |->
                       cancion_from_dict(SelectSeq(leer_json(estado), restorable)[i])]
    /\ booted = TRUE
    /\ rq = [t \in Threads |-> IdleReq]
    /\ lastUpload = NoUpload
    /\ hist = NoHist
    /\ untouched = FALSE
    /\ added = NoAdd
    /\ cl = [t \in Threads |-> IdleClean]
    /\ report = NoReport
    /\ lastClean = NoClean
    /\ startup = IF leer_json(estado) = << >> THEN "no prior state" ELSE "restored"
    /\ hashed = NoHashed
    /\ rebuilt = NoRebuilt
    /\ nOps = 0

\* A report that removes the orphaned files it lists.
diagnostics_cleaning ==
    /\ nOps < MaxCleanups
    /\ nOps' = nOps + 1
    /\ LET orphaned == find_orphaned_stems(outfiles, outdirs, estado)
       IN  /\ report' = generate_report(list_all_stem_files(outfiles, outdirs),
                                         get_referenced_list(estado),
                                         outfiles, outdirs, estado, TRUE)
           /\ outfiles' = [p \in StemPaths |->
                              IF p \in orphaned THEN NoFile ELSE outfiles[p]]
    /\ UNCHANGED << startup, hashed, rebuilt, uploads, outdirs, estado, canciones, booted, rq,
                    lastUpload, hist, untouched, added, cl, lastClean >>

\* GET /api/diagnostics, app.py:448-459 with generate_report,
\* cache_manager.py:108-134: the orphaned files as find_orphaned_stems gives
\* them.
diagnostics ==
    /\ nOps < MaxCleanups
    /\ nOps' = nOps + 1
    /\ report' = generate_report(list_all_stem_files(outfiles, outdirs),
                                 get_referenced_list(estado),
                                 outfiles, outdirs, estado, TRUE)
    /\ UNCHANGED << startup, hashed, rebuilt, uploads, outdirs, outfiles, estado, canciones, booted, rq,
                    lastUpload, hist, untouched, added, cl, lastClean >>

\* POST /api/cache/cleanup, app.py:462-472 and cache_manager.py:79-80: the
\* handler reads nothing of the request; whether the caller confirmed is not
\* looked at.
cleanup_begin(t, confirm) ==
    /\ cl[t].pc = "idle"
    /\ nOps < MaxCleanups
    /\ nOps' = nOps + 1
    /\ LET orphaned == find_orphaned_stems(outfiles, outdirs, estado)
       IN  cl' = [cl EXCEPT ![t] =
                     [IdleClean EXCEPT !.pc = "removing", !.confirm = confirm,
                                       !.orphaned = orphaned, !.todo = orphaned,
                                       !.before = outfiles, !.prev = lastClean]]
    /\ lastClean' = NoClean
    /\ UNCHANGED << startup, hashed, rebuilt, uploads, outdirs, outfiles, estado, canciones, booted, rq,
                    lastUpload, hist, untouched, added, report >>

\* remove_orphan with an os.remove that reports success and leaves the file.
remove_orphan_keeps(t, stem, refused) ==
    /\ cl[t].pc = "removing"
    /\ stem \in cl[t].todo
    /\ cl' = [cl EXCEPT ![t].todo = @ \ {stem}, ![t].deleted = Append(@, stem)]
    /\ UNCHANGED << startup, hashed, rebuilt, uploads, outdirs, outfiles, estado, canciones, booted, rq,
                    lastUpload, hist, untouched, added, report, lastClean, nOps >>

\* One pass of the loop of cache_manager.py:82-88 on orphan stem: os.remove
\* deletes the file, or raises (the file is gone, or the system refuses), and
\* then line 88 reports the error and the loop goes on.
remove_orphan(t, stem, refused) ==
    /\ cl[t].pc = "removing"
    /\ stem \in cl[t].todo
    /\ IF exists(outfiles, stem) /\ ~refused
       THEN /\ outfiles' = [outfiles EXCEPT ![stem] = NoFile]
            /\ cl' = [cl EXCEPT ![t].todo = @ \ {stem},
                                ![t].deleted = Append(@, stem)]
            /\ rq' = Dirtied({})
       ELSE /\ cl' = [cl EXCEPT ![t].todo = @ \ {stem},
                                ![t].errors = @ \cup {stem}]
            /\ UNCHANGED << outfiles, rq >>
    /\ UNCHANGED << startup, hashed, rebuilt, uploads, outdirs, estado, canciones, booted, lastUpload,
                    hist, untouched, added, report, lastClean, nOps >>

\* cache_manager.py:91-93: the folders of outputs_remix/htdemucs are listed.
list_dirs(t) ==
    /\ cl[t].pc = "removing"
    /\ cl[t].todo = {}
    /\ cl' = [cl EXCEPT ![t].pc = "dirs", ![t].dirlist = outdirs]
    /\ UNCHANGED << startup, hashed, rebuilt, uploads, outdirs, outfiles, estado, canciones, booted, rq,
                    lastUpload, hist, untouched, added, report, lastClean, nOps >>

\* One pass of the loop of cache_manager.py:93-97 on folder dir: a folder that
\* is there and empty is removed with os.rmdir, which is in no try block: if
\* it raises, cleanup_orphaned_stems raises and the route answers 500
\* (app.py:479-484).
remove_dir(t, dir, refused) ==
    /\ cl[t].pc = "dirs"
    /\ dir \in cl[t].dirlist
    /\ IF dir \notin outdirs \/ \E p \in StemPaths : p.song = dir /\ exists(outfiles, p)
       THEN /\ cl' = [cl EXCEPT ![t].dirlist = @ \ {dir}]
            /\ UNCHANGED outdirs
       ELSE IF refused
       THEN /\ cl' = [cl EXCEPT ![t].pc = "done",
                                ![t].resp = [status |-> 500, count |-> 0,
                                             deleted |-> << >>]]
            /\ UNCHANGED outdirs
       ELSE /\ outdirs' = outdirs \ {dir}
            /\ cl' = [cl EXCEPT ![t].dirlist = @ \ {dir}]
    /\ UNCHANGED << startup, hashed, rebuilt, uploads, outfiles, estado, canciones, booted, rq, lastUpload,
                    hist, untouched, added, report, lastClean, nOps >>

\* return len(deleted), deleted (cache_manager.py:99) and the JSON response
\* (app.py:474-478).
cleanup_return(t) ==
    /\ cl[t].pc = "dirs"
    /\ cl[t].dirlist = {}
    /\ cl' = [cl EXCEPT ![t].pc = "done",
                        ![t].resp = [status |-> 200, count |-> Len(cl[t].deleted),
                                     deleted |-> cl[t].deleted]]
    /\ UNCHANGED << startup, hashed, rebuilt, uploads, outdirs, outfiles, estado, canciones, booted, rq,
                    lastUpload, hist, untouched, added, report, lastClean, nOps >>

\* The response is sent and the thread is free again.
cleanup_end(t) ==
    /\ cl[t].pc = "done"
    /\ cl' = [cl EXCEPT ![t] = IdleClean]
    /\ lastClean' = IF \A u \in Threads \ {t} : cl[u].pc = "idle"
                    THEN [status |-> cl[t].resp.status, count |-> cl[t].resp.count,
                          errors |-> cl[t].errors]
                    ELSE NoClean
    /\ UNCHANGED << startup, hashed, rebuilt, uploads, outdirs, outfiles, estado, canciones, booted, rq,
                    lastUpload, hist, untouched, added, report, nOps >>

NextCache ==
    \/ \E t \in Threads, confirm \in BOOLEAN : cleanup_begin(t, confirm)
    \/ \E t \in Threads, p \in StemPaths, r \in BOOLEAN : remove_orphan(t, p, r)
    \/ \E t \in Threads : list_dirs(t)
    \/ \E t \in Threads, d \in SongDirs, r \in BOOLEAN : remove_dir(t, d, r)
    \/ \E t \in Threads : cleanup_return(t)
    \/ \E t \in Threads : cleanup_end(t)

\* Cleanup requests in every interleaving.
SpecCache == InitCache /\ [][NextCache]_vars

\* One cleanup request at a time, and nothing else writing.
CleanQuiet == \A u \in Threads : cl[u].pc = "idle"

NextCacheSeq ==
    \/ diagnostics
    \/ \E t \in Threads, confirm \in BOOLEAN : CleanQuiet /\ cleanup_begin(t, confirm)
    \/ \E t \in Threads, p \in StemPaths, r \in BOOLEAN : remove_orphan(t, p, r)
    \/ \E t \in Threads : list_dirs(t)
    \/ \E t \in Threads, d \in SongDirs, r \in BOOLEAN : remove_dir(t, d, r)
    \/ \E t \in Threads : cleanup_return(t)
    \/ \E t \in Threads : cleanup_end(t)

SpecCacheSeq == InitCache /\ [][NextCacheSeq]_vars

\* ------------------------------------------------------- the save, step by step
\* guardar_estado (clases.py:138-142) as the steps another thread can come
\* between.  Line 141 builds the list from the ledger as it is then.
save_snapshot(t) ==
    /\ rq[t].pc = "save"
    /\ rq' = [rq EXCEPT ![t].pc = "write",
                        ![t].data = [i \in 1..Len(canciones) |-> to_dict(canciones[i])]]
    /\ UNCHANGED << startup, hashed, rebuilt, cl, report, lastClean, added, uploads, outdirs,
                    outfiles, estado, canciones, booted, lastUpload, hist,
                    untouched, nOps >>

\* A save that opens estado_proyecto.json itself for writing: the file is
\* empty from the open until the list has been written.
write_in_place(t) ==
    /\ rq[t].pc = "write"
    /\ rq[t].tmp # "whole"
    /\ rq' = [rq EXCEPT ![t].tmp = IF @ = "none" THEN "partial" ELSE "whole"]
    /\ estado' = IF rq[t].tmp = "none"
                 THEN [present |-> TRUE, data |-> << >>]
                 ELSE guardar_json(rq[t].data)
    /\ UNCHANGED << startup, hashed, rebuilt, cl, report, lastClean, added, uploads, outdirs,
                    outfiles, canciones, booted, lastUpload, hist, untouched, nOps >>

\* guardar_json(data), line 142, first half: the list is written to a
\* temporary file of this call, which is partly written before it is whole.
write_tmp(t) ==
    /\ rq[t].pc = "write"
    /\ rq[t].tmp # "whole"
    /\ rq' = [rq EXCEPT ![t].tmp = IF @ = "none" THEN "partial" ELSE "whole"]
    /\ UNCHANGED << startup, hashed, rebuilt, cl, report, lastClean, added, uploads, outdirs,
                    outfiles, estado, canciones, booted, lastUpload, hist,
                    untouched, nOps >>

\* guardar_json(data), second half: the temporary file is renamed onto
\* estado_proyecto.json; then the response of app.py:321-332.
rename_tmp(t) ==
    /\ rq[t].pc = "write"
    /\ rq[t].tmp = "whole"
    /\ estado' = guardar_json(rq[t].data)
    /\ LET dir == demucs_output_dir(UploadPath(rq[t].nombre))
       IN  rq' = [rq EXCEPT ![t].pc = "done",
                            ![t].resp = [status |-> 200, cached |-> FALSE,
                                         pistas |-> pistas_publicas_new(dir, rq[t].validos),
                                         error |-> ""]]
    /\ UNCHANGED << startup, hashed, rebuilt, cl, report, lastClean, added, uploads, outdirs,
                    outfiles, canciones, booted, lastUpload, hist, untouched, nOps >>

\* Engine runs that write whole files or none: no recorded stem goes bad.
SaveOutcomes == {"fail", "full", "nobass"}

\* Startup, crashes and /separar requests in every interleaving, the save
\* taken step by step.
NextSave ==
    \/ cargar_estado
    \/ Restart
    \/ \E t \in Threads, n \in Names : separar_begin(t, n)
    \/ \E t \in Threads, o \in SaveOutcomes : engine_finish(t, o)
    \/ \E t \in Threads : commit_clear(t)
    \/ \E t \in Threads : commit_add(t)
    \/ \E t \in Threads : save_snapshot(t)
    \/ \E t \in Threads : write_tmp(t)
    \/ \E t \in Threads : rename_tmp(t)
    \/ \E t \in Threads : finish(t)

SpecSave == Init /\ [][NextSave]_vars

\* ------------------------------------------------------- fingerprints
\* Two files of up to MaxLen bytes under two names are fingerprinted, each
\* read in chunks of a size up to MaxChunk.
MaxLen == 3

MaxChunk == 3

Bytes == {0, 1}

FileContents == UNION { [1..n -> Bytes] : n \in 0..MaxLen }

InitHash ==
    /\ \E c1, c2 \in 1..MaxChunk, f1, f2 \in FileContents, n2 \in Names \ {NameOrder[1]} :
          hashed = [NoHashed EXCEPT !.name1 = NameOrder[1], !.name2 = n2,
                                    !.f1 = f1, !.f2 = f2,
                                    !.chunk1 = c1, !.chunk2 = c2]
    /\ uploads = [n \in Names |-> NoContent]
    /\ outdirs = {}
    /\ outfiles = [p \in StemPaths |-> NoFile]
    /\ estado = [present |-> FALSE, data |-> << >>]
    /\ canciones = << >>
    /\ booted = TRUE
    /\ rq = [t \in Threads |-> IdleReq]
    /\ lastUpload = NoUpload
    /\ hist = NoHist
    /\ untouched = FALSE
    /\ added = NoAdd
    /\ cl = [t \in Threads |-> IdleClean]
    /\ report = NoReport
    /\ lastClean = NoClean
    /\ startup = "no prior state"
    /\ rebuilt = NoRebuilt
    /\ nOps = 0

\* compute_file_hash is called on each of the two files.
fingerprint_files ==
    /\ ~hashed.done
    /\ LET files == (hashed.name1 :> hashed.f1) @@ (hashed.name2 :> hashed.f2)
       IN  hashed' = [hashed EXCEPT
                         !.done = TRUE,
                         !.id1 = file_hash_by_chunks(files, hashed.name1, hashed.chunk1),
                         !.id2 = file_hash_by_chunks(files, hashed.name2, hashed.chunk2)]
    /\ UNCHANGED << startup, rebuilt, uploads, outdirs, outfiles, estado, canciones, booted, rq,
                    lastUpload, hist, untouched, added, cl, report, lastClean, nOps >>

NextHash == fingerprint_files

SpecHash == InitHash /\ [][NextHash]_vars

\* ------------------------------------------------------- stored ledgers
\* The server started on a store and output folders left by earlier sessions
\* or damaged since.  Besides the records of StoredRecords the store can hold
\* a record of a.wav without 'titulo', and a record of b.mp3 in which the name
\* vocals occurs twice: first with the file of b, then with the file of a.
LoadRecords ==
    StoredRecords \cup
    { [archivo_ruta |-> UploadPath(NameOrder[2]), formato |-> "audio", pistas |-> << >>],
      [to_dict(Cancion(NameOrder[3], UploadPath(NameOrder[3]), "audio"))
         EXCEPT !.pistas = << StoredPista("b", "vocals"), StoredPista("a", "vocals") >>] }

LoadStores ==
    { [present |-> FALSE, data |-> << >>] } \cup
    { [present |-> TRUE, data |-> d] :
        d \in { q \in UNION { [1..n -> LoadRecords] : n \in 0..MaxRecords } :
                  \A i, j \in 1..Len(q) : q[i] = q[j] => i = j } }

\* uploads/ holds the source file of every record that names one.
StoredUploads(store) ==
    [n \in Names |->
        IF \E i \in 1..Len(store.data) :
              /\ "archivo_ruta" \in DOMAIN store.data[i]
              /\ basename(store.data[i].archivo_ruta) = n
        THEN 1 ELSE NoContent]

InitStored ==
    /\ estado \in LoadStores
    /\ uploads = StoredUploads(estado)
    /\ \E F \in SUBSET CachePaths :
          /\ outfiles = [p \in StemPaths |->
                            IF p \in F THEN [size |-> 1001, src |-> 1] ELSE NoFile]
          /\ outdirs = { p.song : p \in F }
    /\ canciones = << >>
    /\ booted = FALSE
    /\ rq = [t \in Threads |-> IdleReq]
    /\ lastUpload = NoUpload
    /\ hist = NoHist
    /\ untouched = FALSE
    /\ added = NoAdd
    /\ cl = [t \in Threads |-> IdleClean]
    /\ report = NoReport
    /\ lastClean = NoClean
    /\ startup = "none"
    /\ hashed = NoHashed
    /\ rebuilt = NoRebuilt
    /\ nOps = 0

\* Startup, restarts and /separar requests, one request at a time.
NextStored ==
    \/ cargar_estado
    \/ Restart
    \/ \E t \in Threads, n \in Names : Quiet /\ separar_begin(t, n)
    \/ \E t \in Threads, o \in EngineOutcomes : engine_finish(t, o)
    \/ \E t \in Threads : commit_clear(t)
    \/ \E t \in Threads : commit_add(t)
    \/ \E t \in Threads : commit_save(t)
    \/ \E t \in Threads : finish(t)

SpecStored == InitStored /\ [][NextStored]_vars

\* ------------------------------------------------------- cleanup under a request
\* /separar requests and /api/cache/cleanup requests on the same server, one
\* of each kind at a time, their steps in every interleaving.  The handlers
\* run on the threads of the server and take no lock.
MaxRaceOps == 2      \* requests of both kinds in one behaviour

NextRace ==
    \/ cargar_estado
    \/ \E t \in Threads, n \in Names : Quiet /\ nOps < MaxRaceOps /\ separar_begin(t, n)
    \/ \E t \in Threads, o \in EngineOutcomes : engine_finish(t, o)
    \/ \E t \in Threads : commit_clear(t)
    \/ \E t \in Threads : commit_add(t)
    \/ \E t \in Threads : commit_save(t)
    \/ \E t \in Threads : finish(t)
    \/ \E t \in Threads, confirm \in BOOLEAN : CleanQuiet /\ nOps < MaxRaceOps /\ cleanup_begin(t, confirm)
    \/ \E t \in Threads, p \in StemPaths, r \in BOOLEAN : remove_orphan(t, p, r)
    \/ \E t \in Threads : list_dirs(t)
    \/ \E t \in Threads, d \in SongDirs, r \in BOOLEAN : remove_dir(t, d, r)
    \/ \E t \in Threads : cleanup_return(t)
    \/ \E t \in Threads : cleanup_end(t)

SpecRace == Init /\ [][NextRace]_vars

\* ------------------------------------------------------- the report, step by step
\* generate_report reads the disk and the store several times and takes no
\* lock: other handlers can run between its reads.  Lines 108-109: the files
\* are listed and the referenced paths read.
report_list ==
    /\ booted
    /\ report.pc = "idle"
    /\ nOps < MaxOps
    /\ nOps' = nOps + 1
    /\ report' = [NoReport EXCEPT !.pc = "listed",
                                  !.all_stems = list_all_stem_files(outfiles, outdirs),
                                  !.referenced = get_referenced_list(estado),
                                  !.files = outfiles,
                                  !.store = estado]
    /\ UNCHANGED << startup, hashed, rebuilt, uploads, outdirs, outfiles, estado, canciones,
                    booted, rq, lastUpload, hist, untouched, added, cl, lastClean >>

\* Lines 110-139 and the response of the route, app.py:456-457.
report_finish ==
    /\ report.pc = "listed"
    /\ report' = generate_report(report.all_stems, report.referenced,
                                 outfiles, outdirs, estado,
                                 report.files = outfiles /\ report.store = estado)
    /\ UNCHANGED << startup, hashed, rebuilt, uploads, outdirs, outfiles, estado, canciones,
                    booted, rq, lastUpload, hist, untouched, added, cl, lastClean, nOps >>

\* /api/diagnostics requests while /separar requests run, one request of each
\* kind at a time, and artifact files are lost in between.
NextReport ==
    \/ cargar_estado
    \/ \E t \in Threads, n \in Names : Quiet /\ separar_begin(t, n)
    \/ \E t \in Threads, o \in EngineOutcomes : engine_finish(t, o)
    \/ \E t \in Threads : commit_clear(t)
    \/ \E t \in Threads : commit_add(t)
    \/ \E t \in Threads : commit_save(t)
    \/ \E t \in Threads : finish(t)
    \/ \E p \in StemPaths : delete_stem(p)
    \/ report_list
    \/ report_finish

SpecReport == Init /\ [][NextReport]_vars

\* ------------------------------------------------------- rebuild_index
\* CacheManager.rebuild_index on a server started on a store and on output
\* folders left by earlier sessions: the records of LoadRecords, and each file
\* of CachePaths absent, or present with 999, 1000 or 1001 bytes.
InitRebuild ==
    /\ estado \in LoadStores
    /\ uploads = StoredUploads(estado)
    /\ \E F \in SUBSET CachePaths : \E z \in [F -> Sizes] :
          /\ outfiles = [p \in StemPaths |->
                            IF p \in F THEN [size |-> z[p], src |-> 1] ELSE NoFile]
          /\ outdirs = { p.song : p \in F }
    /\ canciones = << >>
    /\ booted = FALSE
    /\ rq = [t \in Threads |-> IdleReq]
    /\ lastUpload = NoUpload
    /\ hist = NoHist
    /\ untouched = FALSE
    /\ added = NoAdd
    /\ cl = [t \in Threads |-> IdleClean]
    /\ report = NoReport
    /\ lastClean = NoClean
    /\ startup = "none"
    /\ hashed = NoHashed
    /\ rebuilt = NoRebuilt
    /\ nOps = 0

\* The loop of cache_manager.py:164-169: the pistas whose file exists with more
\* than 1000 bytes, in their order.
valid_pistas(fs, pistas) ==
    LET ok(pista) == /\ exists(fs, pista.archivo_ruta)
                     /\ getsize(fs, pista.archivo_ruta) > 1000
    IN  SelectSeq(pistas, ok)

\* cache_manager.py:157-161: the Song has stems and validate_stems_integrity
\* does not pass them.
not_is_valid(fs, cancion) ==
    /\ cancion.pistas # << >>
    /\ ~validate_stems_integrity(fs, stems_dict(cancion.pistas)).is_valid

\* CacheManager.rebuild_index(proyecto), cache_manager.py:141-178
rebuild_index ==
    /\ booted
    /\ nOps < MaxOps
    /\ nOps' = nOps + 1
    /\ LET invalid == { i \in 1..Len(canciones) : not_is_valid(outfiles, canciones[i]) }
           after == [i \in 1..Len(canciones) |->
                        IF i \in invalid
                        THEN [canciones[i] EXCEPT !.pistas = valid_pistas(outfiles, @)]
                        ELSE canciones[i]]
           dropped == UNION { { << i, j >> : j \in { k \in 1..Len(canciones[i].pistas) :
                                   valid_pistas(outfiles, << canciones[i].pistas[k] >>) = << >> } } :
                              i \in invalid }
           updated_songs == Cardinality(invalid)
           removed_tracks == Cardinality(dropped)
       IN  /\ canciones' = after
           /\ estado' = IF updated_songs > 0 THEN guardar_estado(after) ELSE estado
           /\ rebuilt' = [done |-> TRUE, before |-> canciones, files |-> outfiles,
                          saved |-> updated_songs > 0,
                          updated_songs |-> updated_songs,
                          removed_tracks |-> removed_tracks]
    /\ hist' = NoHist
    /\ UNCHANGED << startup, hashed, cl, report, lastClean, added, uploads, outdirs,
                    outfiles, booted, rq, lastUpload, untouched >>

\* Startup, calls of rebuild_index, and files lost or cut short in between.
NextRebuild ==
    \/ cargar_estado
    \/ rebuild_index
    \/ \E p \in StemPaths : delete_stem(p)
    \/ \E p \in StemPaths, z \in Sizes : truncate_stem(p, z)

SpecRebuild == InitRebuild /\ [][NextRebuild]_vars

TypeOK ==
    /\ uploads \in [Names -> Contents \cup {NoContent}]
    /\ outdirs \subseteq SongDirs
    /\ \A p \in StemPaths : outfiles[p] = NoFile \/ outfiles[p].size \in Sizes
    /\ \A p \in StemPaths : exists(outfiles, p) => p.song \in outdirs
    /\ booted \in BOOLEAN
    /\ \A t \in Threads :
          rq[t].pc \in {"idle", "running", "clear", "add", "save", "write", "done"}

\* ------------------------------------------------------- notions of the properties
\* The step in which the handler of thread t returns its response.
Returns(t) == rq[t].pc # "done" /\ rq'[t].pc = "done"

\* A response that hands out stems: 200 with its pistas.
Success(r) == r.resp.status = 200

\* The artifact path behind a public URL of a response.
url_path(url) == stem_path(url[3], url[4])

\* The content identity of what is stored under an upload name.
IdentityOfName(up, n) == compute_file_hash(up[n])

\* The content identity of a Song: the digest of the bytes of its source file.
\* Cancion keeps no identity of its own (clases.py:39-46).
IdentityOfSong(up, c) == IdentityOfName(up, basename(c.archivo_ruta))

\* The recorded stems of a Song are all on disk (file table fs), valid, and
\* derived from content c.
StemsDerivedFrom(fs, song, c) ==
    /\ song.pistas # << >>
    /\ validate_stems_integrity(fs, stems_dict(song.pistas)).is_valid
    /\ \A i \in 1..Len(song.pistas) : fs[song.pistas[i].archivo_ruta].src = c

\* The artifact paths the Stems of the Songs of a ledger refer to.
LedgerPaths(ledger) ==
    UNION { { ledger[i].pistas[j].archivo_ruta : j \in 1..Len(ledger[i].pistas) } :
              i \in 1..Len(ledger) }

\* The step in which the cleanup of thread t ends, and the artifact files gone
\* since it came in.
CleanupEnds(t) == cl[t].pc = "dirs" /\ cl'[t].pc = "done"

Removed(before, after) ==
    { p \in StemPaths : exists(before, p) /\ ~exists(after, p) }

\* ------------------------------------------------------- properties

\* C1: an ensure request never returns, without having run the engine, stems
\* derived from content whose identity differs from that of the content now
\* stored under the requested name.
C1_NoFalseCacheHit ==
    [][ \A t \in Threads :
          (Returns(t) /\ Success(rq'[t]) /\ rq'[t].ran = 0) =>
             \A i \in 1..Len(rq'[t].resp.pistas) :
                compute_file_hash(outfiles'[url_path(rq'[t].resp.pistas[i].v)].src)
                   = compute_file_hash(uploads'[rq'[t].nombre]) ]_vars

\* C2: for one content identity at most one engine process is in flight at any
\* time, whatever the interleaving of the requests.
C2_SingleFlight ==
    \A t, u \in Threads :
       (t # u /\ rq[t].pc = "running" /\ rq[u].pc = "running") =>
          compute_file_hash(rq[t].src) # compute_file_hash(rq[u].src)

\* C3: an ensure request that finds N recorded stems of which one is missing or
\* below the threshold discards all N, runs the engine, and on success leaves
\* the Song with exactly as many stems as the engine's fresh valid outputs.
C3_DiscardAllAndRebuild ==
    [][ \A t \in Threads :
          /\ (rq[t].pc = "idle" /\ rq'[t].discarded) =>
                canciones'[rq'[t].ci].pistas = << >>
          /\ (Returns(t) /\ rq'[t].discarded) =>
                /\ rq'[t].ran = 1
                /\ Success(rq'[t]) =>
                      Len(canciones'[rq'[t].ci].pistas) = Cardinality(rq'[t].fresh) ]_vars

\* C4: starting from a registered Song with no stems, two consecutive ensure
\* requests with no filesystem change in between return the same artifact
\* paths, and the engine runs exactly once, in the first of them.
C4_EnsureIdempotent ==
    [][ \A t \in Threads :
          (/\ Returns(t)
           /\ rq'[t].prev.nombre = rq'[t].nombre
           /\ rq'[t].prev.status = 200
           /\ rq'[t].prev.had = 0) =>
             /\ Success(rq'[t])
             /\ rq'[t].resp.pistas = rq'[t].prev.pistas
             /\ rq'[t].ran = 0
             /\ rq'[t].prev.ran = 1 ]_vars

\* C5: once content h1 is uploaded and separated, an ensure request for a
\* byte-identical upload under another name returns the same artifact paths
\* with zero engine runs, and the ledger holds exactly one Song for h1.
C5_SameBytesOtherName ==
    [][ \A t \in Threads : \A i \in 1..Len(canciones') :
          LET orig == canciones'[i]
              n1 == basename(orig.archivo_ruta)
              n2 == rq'[t].nombre
          IN  (/\ Returns(t)
               /\ n1 # n2
               /\ uploads'[n1] # NoContent
               /\ uploads'[n1] = uploads'[n2]
               /\ StemsDerivedFrom(outfiles', orig, uploads'[n1])) =>
                 /\ Success(rq'[t])
                 /\ rq'[t].resp.pistas = pistas_publicas_hit(orig.pistas)
                 /\ rq'[t].ran = 0
                 /\ \A j \in 1..Len(canciones') :
                       IdentityOfSong(uploads', canciones'[j]) = IdentityOfSong(uploads', orig)
                          => j = i ]_vars

\* C6: stems are reused across sessions: a Song loaded at startup with valid
\* stems keeps the stem names and paths of the store, and an upload of
\* byte-identical content in the new session is recognised (200) instead of
\* failing or creating a second Song.
C6_ReuseAcrossSessions ==
    \A i \in 1..Len(canciones) :
       (/\ untouched
        /\ lastUpload.status # 0
        /\ uploads[lastUpload.nombre] = lastUpload.content
        /\ StemsDerivedFrom(outfiles, canciones[i], lastUpload.content)) =>
          /\ to_dict(canciones[i]).pistas = estado.data[i].pistas
          /\ lastUpload.status = 200
          /\ \A j \in 1..Len(canciones) :
                IdentityOfSong(uploads, canciones[j]) = compute_file_hash(lastUpload.content)
                   => j = i

\* C7: in every reachable state no two Songs of the ledger have the same
\* content identity.
C7_OneSongPerIdentity ==
    \A i, j \in 1..Len(canciones) :
       (/\ i # j
        /\ uploads[basename(canciones[i].archivo_ruta)] # NoContent
        /\ uploads[basename(canciones[j].archivo_ruta)] # NoContent) =>
          IdentityOfSong(uploads, canciones[i]) # IdentityOfSong(uploads, canciones[j])

\* C8: a call of add with a Song whose content identity equals that of a Song
\* already in the ledger fails and leaves the ledger unchanged; a Song with the
\* display name of a Song of the ledger but an identity none of them has is
\* appended.
C8_AddRejectsDuplicateIdentity ==
    [][ (added'.n # added.n /\ added'.type = "Cancion") =>
          LET song == added'.cancion
              dup == \E i \in 1..Len(canciones) :
                        IdentityOfSong(uploads, canciones[i]) = IdentityOfSong(uploads, song)
          IN  /\ dup => (added'.raised /\ canciones' = canciones)
              /\ (~dup /\ \E i \in 1..Len(canciones) : canciones[i].titulo = song.titulo)
                    => (~added'.raised /\ canciones' = Append(canciones, song)) ]_vars

C12_CacheHitChangesNothing ==
    [][ \A t \in Threads :
          LET nombre == rq'[t].nombre
              ci == encontrar_cancion_por_archivo(canciones, nombre)
              pistas == canciones[ci].pistas
              resp == rq'[t].resp
          IN  (/\ rq[t].pc = "idle" /\ rq'[t].pc # "idle"
               /\ uploads[nombre] # NoContent
               /\ ci # 0
               /\ pistas # << >>
               /\ \A i \in 1..Len(pistas) :
                     /\ exists(outfiles, pistas[i].archivo_ruta)
                     /\ getsize(outfiles, pistas[i].archivo_ruta) > 1000) =>
                 /\ rq'[t].pc = "done"
                 /\ resp.status = 200 /\ resp.cached
                 /\ { << resp.pistas[i].k, url_path(resp.pistas[i].v) >> :
                         i \in 1..Len(resp.pistas) }
                      = { << pistas[i].nombre, pistas[i].archivo_ruta >> :
                            i \in 1..Len(pistas) }
                 /\ rq'[t].ran = 0
                 /\ UNCHANGED << startup, hashed, rebuilt, canciones, estado, outfiles, outdirs >> ]_vars

\* A request has just been answered from the recorded stems.
C12_AnsweredFromLedger ==
    \E t \in Threads :
       /\ rq[t].pc = "done" /\ rq[t].resp.cached /\ rq[t].resp.status = 200
       /\ rq[t].had > 0 /\ rq[t].ran = 0
       /\ Len(rq[t].resp.pistas) = rq[t].had

\* C13: validate_stems_integrity, applied to the recorded stems of a Song,
\* answers valid if and only if every path exists with more than 1000 bytes,
\* and otherwise names every failing stem, tagged as not found or as too small;
\* a file of exactly 1000 bytes fails.
C13_ValidStrictlyAboveThreshold ==
    \A c \in 1..Len(canciones) :
       LET d == stems_dict(canciones[c].pistas)
           r == validate_stems_integrity(outfiles, d)
           absent(j) == ~exists(outfiles, d[j].v)
           small(j) == exists(outfiles, d[j].v) /\ getsize(outfiles, d[j].v) <= 1000
       IN  /\ r.is_valid <=> \A j \in 1..Len(d) : ~absent(j) /\ ~small(j)
           /\ { << r.missing[k].nombre, r.missing[k].reason >> : k \in 1..Len(r.missing) }
                = { << d[j].k, "not found" >> : j \in { x \in 1..Len(d) : absent(x) } }
                  \cup { << d[j].k, "empty" >> : j \in { x \in 1..Len(d) : small(x) } }

\* A recorded stem file holds exactly 1000 bytes and the validation passes it.
C13_ThresholdSizePasses ==
    \E c \in 1..Len(canciones) :
       /\ \E i \in 1..Len(canciones[c].pistas) :
             /\ exists(outfiles, canciones[c].pistas[i].archivo_ruta)
             /\ getsize(outfiles, canciones[c].pistas[i].archivo_ruta) = 1000
       /\ validate_stems_integrity(outfiles, stems_dict(canciones[c].pistas)).is_valid

\* C14: whatever the stored list holds, a malformed record included, what
\* find_orphaned_stems reports is exactly the artifact files under the output
\* root minus the paths the Stems of the Songs of the ledger refer to; no
\* reported path is referenced by the ledger.
C14_OrphansAreUnreferenced ==
    [][ (report'.taken /\ nOps' # nOps /\ cl' = cl) =>
          /\ report'.orphaned_files \cap LedgerPaths(canciones) = {}
          /\ report'.orphaned_files
               = list_all_stem_files(outfiles, outdirs) \ LedgerPaths(canciones) ]_vars

\* The report lists as orphaned a file a Stem of a loaded Song refers to.
C14_ReferencedFileReported ==
    /\ report.taken
    /\ report.orphaned_files \cap LedgerPaths(canciones) # {}

\* C15: a cleanup deletes the files find_orphaned_stems reported (all of
\* them when no removal was refused) and no other file; every artifact file a
\* Stem of the ledger refers to is still there afterwards; the returned count
\* is the length of the returned list, which lists the files deleted.
C15_CleanupDeletesOnlyOrphans ==
    [][ \A t \in Threads :
          CleanupEnds(t) =>
             LET removed == Removed(cl[t].before, outfiles')
                 resp == cl'[t].resp
             IN  /\ removed \subseteq cl[t].orphaned
                 /\ cl[t].errors = {} => removed = cl[t].orphaned
                 /\ \A p \in LedgerPaths(canciones) :
                       exists(cl[t].before, p) => exists(outfiles', p)
                 /\ resp.status = 200 =>
                       /\ resp.count = Len(resp.deleted)
                       /\ { resp.deleted[i] : i \in 1..Len(resp.deleted) } = removed ]_vars

\* A cleanup has ended and a file a Stem of a loaded Song refers to is gone.
C15_ReferencedFileDeleted ==
    \E t \in Threads :
       /\ cl[t].pc = "done"
       /\ \E p \in LedgerPaths(canciones) :
             exists(cl[t].before, p) /\ ~exists(outfiles, p)

C17_UnconfirmedCleanupDeletesNothing ==
    [][ (\E t \in Threads :
            cl[t].pc # "idle" /\ ~cl[t].confirm /\ cl'[t] # cl[t]) =>
          (outfiles' = outfiles /\ outdirs' = outdirs) ]_vars

\* A cleanup request without confirmation has returned with a file deleted.
C17_UnconfirmedCleanupDeleted ==
    \E t \in Threads :
       /\ cl[t].pc = "done"
       /\ ~cl[t].confirm
       /\ cl[t].resp.status = 200
       /\ cl[t].resp.count > 0
       /\ Removed(cl[t].before, outfiles) # {}

\* C18: a cleanup in which the removal of a file or of a directory fails still
\* ends by returning normally; every orphan whose removal did not fail is
\* deleted, and the returned list holds exactly the files deleted.
C18_FailuresNeverAbortTheBatch ==
    [][ \A t \in Threads :
          CleanupEnds(t) =>
             LET resp == cl'[t].resp
             IN  /\ resp.status = 200
                 /\ Removed(cl[t].before, outfiles') = cl[t].orphaned \ cl[t].errors
                 /\ { resp.deleted[i] : i \in 1..Len(resp.deleted) }
                       = Removed(cl[t].before, outfiles') ]_vars

\* A cleanup that had deleted a file ended with an error response, because a
\* directory could not be removed.
C18_RmdirFailureAborted ==
    \E t \in Threads :
       /\ cl[t].pc = "done"
       /\ cl[t].resp.status = 500
       /\ cl[t].deleted # << >>
       /\ cl[t].dirlist # {}

\* The loop over the files alone: whatever removals of files fail, every
\* other orphan is deleted before the directories are looked at.
C18_FileFailuresAreSkipped ==
    [][ \A t \in Threads :
          (cl[t].pc = "removing" /\ cl'[t].pc = "dirs") =>
             /\ Removed(cl[t].before, outfiles') = cl[t].orphaned \ cl[t].errors
             /\ { cl[t].deleted[i] : i \in 1..Len(cl[t].deleted) }
                   = Removed(cl[t].before, outfiles') ]_vars

\* C19: when a cleanup comes to an orphan that is already gone (a cleanup
\* running at the same time removed it), the removal counts as a success for
\* that file: it is not handled as an error.
C19_AbsentOrphanIsNoError ==
    [][ \A t \in Threads, p \in StemPaths :
          (/\ cl[t].pc = "removing"
           /\ p \in cl[t].todo
           /\ p \notin cl'[t].todo
           /\ ~exists(outfiles, p)) => p \notin cl'[t].errors ]_vars

\* Two cleanups ran at the same time: one deleted an orphan, and the other
\* took the error branch for the same file.
C19_LostRaceReportedAsError ==
    \E t, u \in Threads, p \in StemPaths :
       /\ t # u
       /\ p \in cl[t].errors
       /\ \E i \in 1..Len(cl[u].deleted) : cl[u].deleted[i] = p

\* C20: every /separar request that has been taken eventually completes, with
\* a success or a failure response, whether or not the engine process exits
\* (a request is also over when the server is stopped under it).
C20_EnsureEventuallyCompletes ==
    \A t \in Threads :
       (rq[t].pc \in {"running", "clear", "add", "save"})
          ~> (rq[t].pc \in {"done", "idle"})

\* A request is waiting in process.communicate() for the engine to exit.
C20_WaitingForEngine ==
    \E t \in Threads :
       /\ rq[t].pc = "running"
       /\ ~ENABLED commit_clear(t)
       /\ ~ENABLED finish(t)

\* C21: when the engine exits with a nonzero code, or with code zero while the
\* output folder of the song does not exist, separate_stems raises: the
\* request ends with a failure response that carries no stems, the Song is
\* left with no recorded stems, the store is not written, and the engine is
\* not started a second time.
C21_EngineFailureFailsTheRequest ==
    [][ \A t \in Threads :
          (\/ engine_finish(t, "fail")
           \/ /\ engine_finish(t, "nothing")
              /\ demucs_output_dir(UploadPath(rq[t].nombre)) \notin outdirs) =>
             /\ rq'[t].pc = "done"
             /\ rq'[t].resp.status = 500
             /\ rq'[t].resp.pistas = << >>
             /\ rq'[t].ran = 1
             /\ canciones'[rq[t].ci].pistas = << >>
             /\ estado' = estado ]_vars

\* A request whose engine run left no output folder has ended.
C21_EngineFailed ==
    \E t \in Threads :
       /\ rq[t].pc = "done"
       /\ rq[t].ran = 1
       /\ rq[t].resp.status = 500
       /\ demucs_output_dir(UploadPath(rq[t].nombre)) \notin outdirs

C23_IncompleteFolderStartsEngine ==
    \E t \in Threads :
       /\ rq[t].pc = "running"
       /\ rq[t].fresh = {}
       /\ \E st \in StemNames :
             exists(outfiles, stem_path(demucs_output_dir(UploadPath(rq[t].nombre)), st))

\* A stored Song record with every key a Song and its Stems need.
WellFormedRecord(r) ==
    /\ "titulo" \in DOMAIN r
    /\ "archivo_ruta" \in DOMAIN r
    /\ "pistas" \in DOMAIN r
    /\ \A j \in 1..Len(r.pistas) :
          "nombre" \in DOMAIN r.pistas[j] /\ "archivo_ruta" \in DOMAIN r.pistas[j]

\* C24: loading a missing or empty store signals "no prior state" and leaves
\* the ledger empty; loading a store of well-formed and malformed Song records
\* gives exactly the well-formed ones, in their stored order, each with its
\* stored stems, and the load runs to its end.
C24_LoadSkipsMalformedRecords ==
    [][ (~booted /\ booted') =>
          LET data == IF estado.present THEN estado.data ELSE << >>
              good == SelectSeq(data, WellFormedRecord)
          IN  IF data = << >>
              THEN startup' = "no prior state" /\ canciones' = << >>
              ELSE /\ startup' = "restored"
                   /\ Len(canciones') = Len(good)
                   /\ \A i \in 1..Len(good) :
                         /\ canciones'[i].titulo = good[i].titulo
                         /\ canciones'[i].archivo_ruta = good[i].archivo_ruta
                         /\ Len(canciones'[i].pistas) = Len(good[i].pistas)
                         /\ \A j \in 1..Len(good[i].pistas) :
                               /\ canciones'[i].pistas[j].nombre = good[i].pistas[j].nombre
                               /\ canciones'[i].pistas[j].archivo_ruta
                                     = good[i].pistas[j].archivo_ruta ]_vars

\* A store whose first record is malformed and whose second is well formed,
\* with stems, has just been loaded: the ledger holds the second.
C24_LoadedPastMalformedRecord ==
    /\ booted
    /\ untouched
    /\ startup = "restored"
    /\ Len(estado.data) = 2
    /\ ~WellFormedRecord(estado.data[1])
    /\ WellFormedRecord(estado.data[2])
    /\ Len(canciones) = 1
    /\ canciones[1].pistas # << >>

\* The persisted list holds the Songs of the in-memory ledger, in the same
\* order, each with the same stems.
SameLedger(store, ledger) ==
    LET data == IF store.present THEN store.data ELSE << >>
    IN  /\ Len(data) = Len(ledger)
        /\ \A i \in 1..Len(ledger) :
              /\ data[i].titulo = ledger[i].titulo
              /\ data[i].archivo_ruta = ledger[i].archivo_ruta
              /\ Len(data[i].pistas) = Len(ledger[i].pistas)
              /\ \A j \in 1..Len(ledger[i].pistas) :
                    /\ data[i].pistas[j].nombre = ledger[i].pistas[j].nombre
                    /\ data[i].pistas[j].archivo_ruta = ledger[i].pistas[j].archivo_ruta

\* C25: whenever an /upload or a /separar request completes, with a success
\* or with a failure, and no other request is in flight, the persisted ledger
\* equals the in-memory ledger.
C25_PersistedEqualsInMemory ==
    [][ (\/ /\ lastUpload' # lastUpload
            /\ lastUpload'.status # 0
            /\ \A u \in Threads : rq[u].pc = "idle"
         \/ \E t \in Threads :
               /\ rq[t].pc = "done"
               /\ rq'[t].pc = "idle"
               /\ booted'
               /\ \A u \in Threads \ {t} : rq[u].pc = "idle") =>
          SameLedger(estado', canciones') ]_vars

\* A request that found invalid recorded stems and whose engine run failed
\* has ended: the Song has no stems in memory and still has them in the store.
C25_ClearedInMemoryOnly ==
    \E t \in Threads :
       /\ rq[t].pc = "done"
       /\ rq[t].resp.status = 500
       /\ rq[t].discarded
       /\ canciones[rq[t].ci].pistas = << >>
       /\ estado.data[rq[t].ci].pistas # << >>

\* C26: whatever the interleaving of the requests that commit stems, once all
\* of them have completed the persisted ledger equals the in-memory ledger:
\* it holds every Song with the stems committed for it, none lost.
C26_NoLostUpdate ==
    [][ (\E t \in Threads :
            /\ rq[t].pc = "done"
            /\ rq'[t].pc = "idle"
            /\ booted'
            /\ \A u \in Threads \ {t} : rq[u].pc = "idle") =>
          SameLedger(estado', canciones') ]_vars

\* No request is in flight, and stems committed for a Song in memory are not
\* in the store: a later write of an older list took them out.
C26_CommittedStemsLost ==
    /\ booted
    /\ \A t \in Threads : rq[t].pc = "idle"
    /\ \E i \in 1..Len(canciones) :
          /\ canciones[i].pistas # << >>
          /\ Len(estado.data) >= i
          /\ estado.data[i].pistas = << >>

\* The path recorded with the first stem of this name, and whether two stems
\* of the list share a name.
FirstPath(pistas, nombre) ==
    pistas[CHOOSE i \in 1..Len(pistas) :
              /\ pistas[i].nombre = nombre
              /\ \A j \in 1..(i - 1) : pistas[j].nombre # nombre].archivo_ruta

HasDuplicateNames(pistas) ==
    \E i, j \in 1..Len(pistas) : i # j /\ pistas[i].nombre = pistas[j].nombre

\* C27: when the recorded stems of a Song hold a name more than once, the
\* stem checked, kept and returned for that name is its first occurrence; no
\* path is returned that did not pass the integrity check; and after the
\* request the stem names of the Song are pairwise distinct.
C27_FirstOccurrenceWins ==
    [][ \A t \in Threads :
          /\ (rq[t].pc = "idle" /\ rq'[t].pc = "done" /\ rq'[t].resp.cached) =>
                LET pistas == canciones[rq'[t].ci].pistas
                    resp == rq'[t].resp
                IN  \A k \in 1..Len(resp.pistas) :
                       LET first == FirstPath(pistas, resp.pistas[k].k)
                       IN  /\ resp.pistas[k].v = public_url(first)
                           /\ exists(outfiles, first)
                           /\ getsize(outfiles, first) > 1000
          /\ (rq[t].pc = "done" /\ rq'[t].pc = "idle" /\ booted' /\ rq[t].ci # 0) =>
                ~HasDuplicateNames(canciones'[rq[t].ci].pistas) ]_vars

\* A request on a Song with a twice-recorded name was answered from the
\* ledger although the file of the first record of that name is missing.
C27_LastOccurrenceReturned ==
    \E t \in Threads :
       /\ rq[t].pc = "done"
       /\ rq[t].resp.cached
       /\ HasDuplicateNames(canciones[rq[t].ci].pistas)
       /\ \E k \in 1..Len(rq[t].resp.pistas) :
             LET first == FirstPath(canciones[rq[t].ci].pistas, rq[t].resp.pistas[k].k)
             IN  /\ ~exists(outfiles, first)
                 /\ rq[t].resp.pistas[k].v # public_url(first)

\* C28: a save is atomic: a step changes the store only by putting the whole
\* new list of a save in its place, and a crash changes nothing in it; so a
\* crash at any point of a save leaves the whole previous ledger or the whole
\* new one in the store.
C28_SaveIsAtomic ==
    [][ /\ estado' # estado =>
             \E t \in Threads :
                /\ rq[t].pc = "write"
                /\ rq[t].tmp = "whole"
                /\ rq[t].data # << >>
                /\ estado' = [present |-> TRUE, data |-> rq[t].data]
        /\ (booted /\ ~booted') => estado' = estado ]_vars

\* A save is half way through writing, the store still holds the previous
\* ledger, and the process can crash here.
C28_CrashPointInsideSave ==
    \E t \in Threads :
       /\ rq[t].pc = "write"
       /\ rq[t].tmp = "partial"
       /\ estado.present
       /\ estado.data # rq[t].data
       /\ ENABLED Restart

\* C29: producing a diagnostics report changes nothing: the in-memory ledger,
\* the persisted ledger, and the files and folders under the output root (which
\* exist, and their sizes) are after the report what they were before it.
C29_ReportChangesNothing ==
    [][ diagnostics =>
          /\ canciones' = canciones
          /\ estado' = estado
          /\ outdirs' = outdirs
          /\ \A p \in StemPaths :
                /\ exists(outfiles', p) = exists(outfiles, p)
                /\ getsize(outfiles', p) = getsize(outfiles, p) ]_vars

\* A report has listed orphaned files, and they are still on disk.
C29_ReportedOrphansStillThere ==
    /\ report.taken
    /\ report.orphaned_files # {}
    /\ \A p \in report.orphaned_files : exists(outfiles, p)
    /\ \A t \in Threads : cl[t].pc = "idle"
    /\ lastClean = NoClean

\* C30: the fingerprint depends on the bytes of the file and on nothing else:
\* two files with the same bytes get equal identities whatever their names and
\* whatever the chunk size each is read with, also when the file is empty or
\* its length is a multiple of the chunk size; two files that differ in a byte
\* get different identities.
C30_FingerprintOfBytesOnly ==
    hashed.done =>
       /\ (hashed.f1 = hashed.f2) <=> (hashed.id1 = hashed.id2)
       /\ hashed.id1 = << "sha256", hashed.f1 >>
       /\ hashed.id2 = << "sha256", hashed.f2 >>

\* Two files with the same bytes under different names were read with
\* different chunk sizes, one of which divides the length, and got the same
\* identity.
C30_SameBytesOtherChunks ==
    /\ hashed.done
    /\ hashed.f1 = hashed.f2
    /\ hashed.name1 # hashed.name2
    /\ Len(hashed.f1) = MaxLen
    /\ hashed.chunk1 = MaxLen
    /\ hashed.chunk2 = 2
    /\ hashed.id1 = hashed.id2

\* Two empty files under different names got the same identity.
C30_EmptyFilesAgree ==
    /\ hashed.done
    /\ hashed.f1 = << >>
    /\ hashed.f2 = << >>
    /\ hashed.id1 = hashed.id2

\* No Song of the ledger has this file name as its source file.
Unregistered(ledger, nombre) ==
    \A i \in 1..Len(ledger) : basename(ledger[i].archivo_ruta) # nombre

\* C31: an ensure request for a name whose input file is in the upload folder
\* but which no Song of the ledger has as its source is answered in that very
\* step with 404 "not registered"; no engine process is started, and the
\* in-memory ledger, the ledger store, the artifact folders and the artifact
\* files are what they were.
C31_UnregisteredIsRefused ==
    [][\A t \in Threads :
          (/\ rq[t].pc = "idle" /\ rq'[t].pc # "idle"
           /\ uploads[rq'[t].nombre] # NoContent
           /\ Unregistered(canciones, rq'[t].nombre)) =>
             /\ rq'[t].pc = "done"
             /\ rq'[t].resp.status = 404
             /\ rq'[t].resp.error = "Cancion no registrada en el proyecto"
             /\ rq'[t].resp.pistas = << >>
             /\ rq'[t].ran = 0
             /\ canciones' = canciones
             /\ estado' = estado
             /\ outdirs' = outdirs
             /\ outfiles' = outfiles]_vars

\* A request for an uploaded file that is not registered has been refused,
\* while the ledger holds another Song.
C31_UploadedButUnregistered ==
    \E t \in Threads :
       /\ rq[t].pc = "done"
       /\ rq[t].resp.error = "Cancion no registrada en el proyecto"
       /\ uploads[rq[t].nombre] # NoContent
       /\ Unregistered(canciones, rq[t].nombre)
       /\ Len(canciones) > 0

\* The spec's integrity check of one artifact: the file exists and its size
\* exceeds the threshold of 1000 bytes.
Whole(fs, path) == exists(fs, path) /\ getsize(fs, path) > 1000

\* What the claim C32 says of one call of rebuild_index, given the ledger and
\* the files it was called on.
RebuildAsClaimed ==
    LET whole(pista) == Whole(outfiles, pista.archivo_ruta)
        kept(i) == SelectSeq(canciones[i].pistas, whole)
        changed == { i \in 1..Len(canciones) : kept(i) # canciones[i].pistas }
        gone == UNION { { << i, j >> : j \in { k \in 1..Len(canciones[i].pistas) :
                              ~whole(canciones[i].pistas[k]) } } :
                        i \in 1..Len(canciones) }
    IN  /\ Len(canciones') = Len(canciones)
        /\ \A i \in 1..Len(canciones) :
              canciones'[i] = [canciones[i] EXCEPT !.pistas = kept(i)]
        /\ rebuilt'.updated_songs = Cardinality(changed)
        /\ rebuilt'.removed_tracks = Cardinality(gone)
        /\ rebuilt'.saved <=> changed # {}
        /\ rebuilt'.saved => SameLedger(estado', canciones')
        /\ ~rebuilt'.saved => estado' = estado
        /\ \A i \in 1..Len(canciones') :
              validate_stems_integrity(outfiles', stems_dict(canciones'[i].pistas)).is_valid

\* C32: a call of rebuild_index removes from each Song exactly the stems whose
\* file is missing or does not exceed the size threshold and keeps the others
\* in their order; it returns the number of Songs changed and the number of
\* stems removed, saves the ledger if and only if a Song changed, and leaves
\* every Song with stems that pass validate_stems_integrity.
C32_RebuildDropsExactlyTheInvalid ==
    [][rebuild_index => RebuildAsClaimed]_vars

\* rebuild_index has run on a Song all of whose stem files exist, one of them
\* with exactly 1000 bytes: it reported nothing changed and the Song still
\* records that stem.
C32_ThresholdStemKept ==
    /\ rebuilt.done
    /\ rebuilt.files = outfiles
    /\ rebuilt.updated_songs = 0
    /\ ~rebuilt.saved
    /\ \E i \in 1..Len(canciones) : \E j \in 1..Len(canciones[i].pistas) :
          /\ exists(outfiles, canciones[i].pistas[j].archivo_ruta)
          /\ getsize(outfiles, canciones[i].pistas[j].archivo_ruta) = 1000
          /\ \A k \in 1..Len(canciones[i].pistas) :
                exists(outfiles, canciones[i].pistas[k].archivo_ruta)

\* The same call on a ledger where no recorded file holds exactly 1000 bytes
\* and no Song records a stem name twice does what the claim says.
C32_HoldsAwayFromThreshold ==
    [][(/\ rebuild_index
        /\ \A i \in 1..Len(canciones) :
              /\ ~HasDuplicateNames(canciones[i].pistas)
              /\ \A j \in 1..Len(canciones[i].pistas) :
                    exists(outfiles, canciones[i].pistas[j].archivo_ruta) =>
                       getsize(outfiles, canciones[i].pistas[j].archivo_ruta) # 1000)
          => RebuildAsClaimed]_vars

\* rebuild_index has removed a stem whose file exists with exactly 1000 bytes,
\* together with a stem of the same Song whose file is missing.
C32_ThresholdStemRemoved ==
    /\ rebuilt.done
    /\ rebuilt.files = outfiles
    /\ \E i \in 1..Len(rebuilt.before) : \E j \in 1..Len(rebuilt.before[i].pistas) :
          /\ exists(outfiles, rebuilt.before[i].pistas[j].archivo_ruta)
          /\ getsize(outfiles, rebuilt.before[i].pistas[j].archivo_ruta) = 1000
          /\ canciones[i].pistas = << >>

\* The verdict of each check site on the one artifact file at path p:
\* validate_stems_integrity on a one-entry mapping, the post-run loop of
\* separate_stems, the validation of separar, the loop of rebuild_index.
ValidateAccepts(fs, p) ==
    validate_stems_integrity(fs, << [k |-> p.stem, v |-> p] >>).is_valid

PostRunAccepts(fs, p) ==
    \E i \in 1..Len(stems_after_run(fs, p.song)) : stems_after_run(fs, p.song)[i] = p.stem

SepararAccepts(fs, p) == stems_validos(fs, p.song, << p.stem >>) = << p.stem >>

RebuildAccepts(fs, p) == valid_pistas(fs, << Pista(p.stem, p) >>) # << >>

\* The mapping of the four expected stems of a folder to their paths.
ExpectedDict(dir) ==
    [i \in 1..Len(expected_stems) |->
        [k |-> expected_stems[i], v |-> stem_path(dir, expected_stems[i])]]

\* C33: on every artifact file that exists, whatever its size,
\* validate_stems_integrity, the post-run check of separate_stems, the
\* post-run validation of separar and rebuild_index give the same verdict, and
\* the cache check of separate_stems accepts a folder exactly when
\* validate_stems_integrity accepts its four expected files.
C33_OnePredicateEverywhere ==
    /\ \A p \in StemPaths :
          exists(outfiles, p) =>
             /\ ValidateAccepts(outfiles, p) <=> PostRunAccepts(outfiles, p)
             /\ ValidateAccepts(outfiles, p) <=> SepararAccepts(outfiles, p)
             /\ ValidateAccepts(outfiles, p) <=> RebuildAccepts(outfiles, p)
    /\ \A d \in outdirs :
          all_exist(outfiles, outdirs, d)
             <=> validate_stems_integrity(outfiles, ExpectedDict(d)).is_valid

\* An engine run has left a stem file of exactly 1000 bytes: separate_stems
\* returned it, separar dropped it from what it records, and
\* validate_stems_integrity would pass it.
C33_SitesDisagreeAt1000 ==
    \E t \in Threads : \E p \in StemPaths :
       /\ rq[t].pc = "clear" /\ rq[t].ran = 1
       /\ p.song = demucs_output_dir(UploadPath(rq[t].nombre))
       /\ exists(outfiles, p) /\ getsize(outfiles, p) = 1000
       /\ PostRunAccepts(outfiles, p)
       /\ ValidateAccepts(outfiles, p)
       /\ ~SepararAccepts(outfiles, p)
       /\ ~RebuildAccepts(outfiles, p)
       /\ \A i \in 1..Len(rq[t].validos) : rq[t].validos[i] # p.stem

\* At every size other than 1000 bytes the sites agree.
C33_SitesAgreeElsewhere ==
    \A p \in StemPaths :
       (exists(outfiles, p) /\ getsize(outfiles, p) # 1000) =>
          /\ ValidateAccepts(outfiles, p) <=> PostRunAccepts(outfiles, p)
          /\ ValidateAccepts(outfiles, p) <=> SepararAccepts(outfiles, p)
          /\ ValidateAccepts(outfiles, p) <=> RebuildAccepts(outfiles, p)

\* C34: in every interleaving of a cleanup with an ensure request in flight,
\* when the request commits stems to the ledger (guardar_estado, then the
\* response), the file of every stem it has recorded for the Song exists on
\* disk: the cleanup has not deleted a file the request records.
C34_CommittedStemsExist ==
    [][\A t \in Threads :
          (rq[t].pc = "save" /\ rq'[t].pc = "done") =>
             \A j \in 1..Len(canciones'[rq[t].ci].pistas) :
                exists(outfiles', canciones'[rq[t].ci].pistas[j].archivo_ruta)]_vars

\* A request has answered 200 with stems of its own engine run and saved them,
\* and a file it recorded is gone: a cleanup that ran meanwhile deleted it.
C34_CleanupDeletedCommittedStem ==
    \E t, u \in Threads :
       /\ rq[t].pc = "done" /\ Success(rq[t]) /\ rq[t].ran = 1
       /\ SameLedger(estado, canciones)
       /\ \E j \in 1..Len(canciones[rq[t].ci].pistas) :
             LET path == canciones[rq[t].ci].pistas[j].archivo_ruta
             IN  /\ ~exists(outfiles, path)
                 /\ \E k \in 1..Len(cl[u].deleted) : cl[u].deleted[k] = path
                 /\ \E k \in 1..Len(rq[t].resp.pistas) :
                       rq[t].resp.pistas[k].v = public_url(path)

\* C35: every diagnostics report is consistent in itself: orphaned_stems is
\* the number of orphaned_files and at most total_stems_in_filesystem, and
\* cache_utilization_rate (in thousandths) is 0 when no artifact file was
\* found and lies between 0 and 1 otherwise; whatever the ledger and the files
\* are, and whether or not they changed while the report was produced.
C35_ReportIsConsistent ==
    report.taken =>
       /\ report.orphaned_stems = Cardinality(report.orphaned_files)
       /\ report.orphaned_stems <= report.total_stems_in_filesystem
       /\ report.total_stems_in_filesystem = 0 => report.cache_utilization_rate = 0
       /\ report.cache_utilization_rate >= 0
       /\ report.cache_utilization_rate <= 1000

\* Nothing changed while the report was produced, the store names more stems
\* than there are artifact files, and the report gives a utilization above 1.
C35_UtilizationAboveOne ==
    /\ report.taken
    /\ report.quiet
    /\ report.total_stems_in_filesystem > 0
    /\ Len(report.referenced) > report.total_stems_in_filesystem
    /\ report.cache_utilization_rate > 1000

\* An engine run wrote its files between the listing of line 108 and the
\* listing of line 110: the report counts more orphans than files.
C35_MoreOrphansThanFiles ==
    /\ report.taken
    /\ ~report.quiet
    /\ report.orphaned_stems > report.total_stems_in_filesystem

\* When nothing changes under the report, the orphans are counted right and
\* are at most the files found, and the rate is 0 without files; the rate is
\* at most 1 when every path the store names is on disk.
C35_QuietReportCounts ==
    (report.taken /\ report.quiet) =>
       /\ report.orphaned_stems = Cardinality(report.orphaned_files)
       /\ report.orphaned_stems <= report.total_stems_in_filesystem
       /\ report.total_stems_in_filesystem = 0 => report.cache_utilization_rate = 0
       /\ report.cache_utilization_rate >= 0
       /\ (/\ \A i \in 1..Len(report.referenced) : report.referenced[i] \in report.all_stems
           /\ \A i, j \in 1..Len(report.referenced) :
                 report.referenced[i] = report.referenced[j] => i = j)
             => report.cache_utilization_rate <= 1000

\* C9: an ensure request for a registered Song with no recorded stems, or
\* whose recorded stems were just discarded, runs the engine exactly once,
\* whatever the output directory holds.
C9_EngineExactlyOnce ==
    [][ \A t \in Threads :
          (/\ Returns(t)
           /\ rq'[t].ci # 0
           /\ (rq'[t].had = 0 \/ rq'[t].discarded)) =>
             rq'[t].ran = 1 ]_vars

\* C10: when an ensure request returns success after running the engine, the
\* Song's stems are exactly the stems produced and validated in this request,
\* and the persisted ledger already holds that collection.
C10_WholesaleReplaceAndPersist ==
    [][ \A t \in Threads :
          (Returns(t) /\ Success(rq'[t]) /\ rq'[t].ran = 1) =>
             LET pistas == canciones'[rq'[t].ci].pistas
             IN  /\ Len(pistas) = Cardinality(rq'[t].fresh)
                 /\ { pistas[i].nombre : i \in 1..Len(pistas) } = rq'[t].fresh
                 /\ estado'.present
                 /\ estado'.data[rq'[t].ci].pistas = to_dict(canciones'[rq'[t].ci]).pistas ]_vars

\* ------------------------------------------------------- states in which the properties fail
\* A cache hit hands out stems derived from other bytes than the name now holds.
C1_FalseCacheHit ==
    \E t \in Threads :
       /\ rq[t].pc = "done" /\ Success(rq[t]) /\ rq[t].ran = 0
       /\ uploads[rq[t].nombre] # NoContent
       /\ \E i \in 1..Len(rq[t].resp.pistas) :
             outfiles[url_path(rq[t].resp.pistas[i].v)].src # uploads[rq[t].nombre]

\* Two engine processes run at once on the same bytes.
C2_TwoEnginesInFlight ==
    \E t, u \in Threads :
       /\ t # u
       /\ rq[t].pc = "running" /\ rq[u].pc = "running"
       /\ rq[t].src = rq[u].src

\* After a discard and an engine run, the Song holds stems the run did not write.
C3_StaleStemsAfterDiscard ==
    \E t \in Threads :
       /\ rq[t].pc = "done" /\ Success(rq[t])
       /\ rq[t].discarded /\ rq[t].ran = 1
       /\ Len(canciones[rq[t].ci].pistas) # Cardinality(rq[t].fresh)

\* The second of two consecutive requests is a hit, and the first, on a Song
\* without stems, succeeded without any engine run.
C4_NoEngineRunAtAll ==
    \E t \in Threads :
       /\ rq[t].pc = "done" /\ Success(rq[t]) /\ rq[t].ran = 0
       /\ rq[t].prev.nombre = rq[t].nombre
       /\ rq[t].prev.status = 200
       /\ rq[t].prev.had = 0
       /\ rq[t].prev.ran = 0

\* The request for the byte-identical upload under another name is answered 404.
C5_CopyNotFound ==
    \E t \in Threads : \E i \in 1..Len(canciones) :
       /\ rq[t].pc = "done" /\ rq[t].resp.status = 404
       /\ basename(canciones[i].archivo_ruta) # rq[t].nombre
       /\ uploads[rq[t].nombre] # NoContent
       /\ uploads[rq[t].nombre] = uploads[basename(canciones[i].archivo_ruta)]
       /\ StemsDerivedFrom(outfiles, canciones[i], uploads[rq[t].nombre])

\* In the new session the upload of the bytes of a loaded Song with valid stems
\* is answered 500.
C6_UploadFailsAfterRestart ==
    \E i \in 1..Len(canciones) :
       /\ untouched
       /\ lastUpload.status = 500
       /\ uploads[lastUpload.nombre] = lastUpload.content
       /\ StemsDerivedFrom(outfiles, canciones[i], lastUpload.content)

\* Two Songs of the ledger whose source files hold the same bytes.
C7_TwoSongsOneIdentity ==
    \E i, j \in 1..Len(canciones) :
       /\ i # j
       /\ uploads[basename(canciones[i].archivo_ruta)] # NoContent
       /\ uploads[basename(canciones[i].archivo_ruta)]
             = uploads[basename(canciones[j].archivo_ruta)]

\* agregar_cancion returned normally and the ledger now holds the identity twice.
C8_DuplicateAdded ==
    /\ added.type = "Cancion" /\ ~added.raised
    /\ canciones # << >>
    /\ canciones[Len(canciones)] = added.cancion
    /\ \E i \in 1..(Len(canciones) - 1) :
          IdentityOfSong(uploads, canciones[i]) = IdentityOfSong(uploads, added.cancion)

\* A request on a Song without recorded stems succeeds with no engine run.
C9_SmartCacheSkipsEngine ==
    \E t \in Threads :
       /\ rq[t].pc = "done" /\ Success(rq[t])
       /\ rq[t].ci # 0 /\ rq[t].had = 0 /\ ~rq[t].discarded
       /\ rq[t].ran = 0

\* A request that ran the engine succeeds with a stem the run did not write.
C10_StemNotOfThisRun ==
    \E t \in Threads :
       /\ rq[t].pc = "done" /\ Success(rq[t]) /\ rq[t].ran = 1
       /\ ~rq[t].discarded
       /\ \E i \in 1..Len(canciones[rq[t].ci].pistas) :
             canciones[rq[t].ci].pistas[i].nombre \notin rq[t].fresh

====
